---- MODULE Spec2Model ----
(***************************************************************************)
(* Dividend dashboard (src/dividend.py): the "Generate Dividends" handler  *)
(* of main() and the analytics functions it calls, as a state machine.     *)
(*                                                                         *)
(* Numbers.  Money amounts are integers (sen).  Ratios that the source     *)
(* holds in floats (growth, coverage, CV, CAGR, yields, sub-scores) are    *)
(* fixed-point integers in units of 1/Scale, rounded down, except CV which *)
(* is rounded up; with these directions every threshold comparison of the  *)
(* source (>= 0.7, <= 0.6, >= 0.05, < 0) is exact.  DividendScore is in    *)
(* units of 1/Scale of a score point.                                      *)
(*                                                                         *)
(* Undefined values (pd.NA / NaN) are the empty sequence NA; a defined     *)
(* value v is the one-element sequence <<v>>.                              *)
(*                                                                         *)
(* Tables (DataFrames) are sequences of records, in the row order the      *)
(* source gives them.                                                      *)
(*                                                                         *)
(* Two further parts follow the dividend dashboard: the stock-monitoring   *)
(* page (main() of src/overview.py) and the metrics helpers of             *)
(* src/financials.py.  Each part has its own specification; the variables  *)
(* of the other parts stay at their initial values.                        *)
(***************************************************************************)
EXTENDS Integers, Sequences, FiniteSets, TLC

VARIABLES
    dividends,            \* provider: ticker -> set of dividend events [Date, Dividend]
    prices,               \* provider: ticker -> price frame [Date -> row or NA]
    down,                 \* provider: tickers whose requests raise
    selected_companies,   \* widget div_companies, in option order (a sequence)
    start_dt,             \* widget div_start
    end_dt,               \* widget div_end
    persona_filter,       \* widget "Persona filter (optional)"
    status,               \* how the last run of the handler ended
    df,                   \* main(): df, the event table
    ann,                  \* main(): ann, the annual table
    metrics,              \* main(): metrics, the scored and labeled table
    parts,                \* main(): cons, vol, cagr, yld while the extractors run
    history,              \* overview.py provider: ticker -> price rows [Date, Close]
    monitor_generated,    \* overview.py: st.session_state.monitor_generated
    monitor_df_all,       \* overview.py: st.session_state.monitor_df_all
    picked_points_close,  \* overview.py: st.session_state.picked_points_close
    clicks,               \* history: what plotly_events handed the runs since the
                          \* picks were last emptied, and what each run picked
    monitor_notice,       \* overview.py: the st.warning / st.error of the last run
    quarterly_financials, \* financials.py provider: ticker -> quarterly frame
    fin_call,             \* financials.py: the arguments of the last helper call
    records               \* financials.py: the frame the last helper call returned

dividend_vars == <<dividends, prices, down, selected_companies, start_dt, end_dt,
                   persona_filter, status, df, ann, metrics, parts>>

monitor_vars == <<history, monitor_generated, monitor_df_all, picked_points_close,
                  clicks, monitor_notice>>

financials_vars == <<quarterly_financials, fin_call, records>>

\* the state of the pages other than the dividend page
other_pages == <<monitor_vars, financials_vars>>

vars == <<dividend_vars, monitor_vars, financials_vars>>

\* overview.py lines 52-57 and no helper of financials.py called: the other pages
\* as a new session has them, with a provider that has nothing for them
OtherPagesIdle ==
    /\ history = << >>
    /\ monitor_generated = FALSE
    /\ monitor_df_all = << >>
    /\ picked_points_close = << >>
    /\ clicks = << >>
    /\ monitor_notice = "none"
    /\ quarterly_financials = << >>
    /\ fin_call = << >>
    /\ records = << >>

-----------------------------------------------------------------------------
(* Bounds of the model *)

\* the provider holds at most MaxEvents dividend events over all tickers
MaxEvents == 2
\* the calendar years of the model
Years == 0 .. 2
NumYears == Cardinality(Years)

(* Fixed-point resolution of the ratios, and the representation of float inf *)
Scale == 100
Inf == 1000000

-----------------------------------------------------------------------------
(* Undefined values *)

NA == << >>
Some(v) == << v >>
isna(x) == x = NA
notna(x) == x # NA
Val(x) == x[1]

-----------------------------------------------------------------------------
(* Configuration: src/dividend.py:9-24 (the base company and one competitor) *)

BASE_COMPANY_NAME == "LBS Bina"
BASE_TICKER == "5789.KL"
COMPETITORS == [c \in {"S P Setia"} |-> "8664.KL"]
NoTicker == "None"

\* main(): company_options, in list order (which is also alphabetical order)
company_options == << BASE_COMPANY_NAME, "S P Setia" >>
Companies == {company_options[i] : i \in DOMAIN company_options}

ticker_for_company(company) ==
    IF company = BASE_COMPANY_NAME THEN BASE_TICKER
    ELSE IF company \in DOMAIN COMPETITORS THEN COMPETITORS[company]
    ELSE NoTicker

Tickers == {ticker_for_company(c) : c \in Companies}

\* position of a company name in string order (sort_values on "Company")
CompanyRank(c) == CHOOSE i \in DOMAIN company_options : company_options[i] = c

-----------------------------------------------------------------------------
(* Calendar: a date is a day number.  The trailing window of yield_metrics, *)
(* timedelta(days=365), is TTMDays days of the model, and a calendar year    *)
(* has as many days: a year of the model has two dates.                      *)

TTMDays == 2
DaysPerYear == TTMDays
Dates == 0 .. (NumYears * DaysPerYear - 1)
DateSeq == [i \in 1 .. NumYears * DaysPerYear |-> i - 1]
YearOf(d) == d \div DaysPerYear

-----------------------------------------------------------------------------
(* Generic helpers on sequences and sets *)

RECURSIVE SumSeq(_)
SumSeq(s) == IF s = << >> THEN 0 ELSE Head(s) + SumSeq(Tail(s))

RECURSIVE SetToSortedSeq(_, _)
\* the elements of S as a sequence ascending in Key (a function on S, injective)
SetToSortedSeq(S, Key) ==
    IF S = {} THEN << >>
    ELSE LET m == CHOOSE x \in S : \A y \in S : Key[x] <= Key[y]
         IN  << m >> \o SetToSortedSeq(S \ {m}, Key)

Map(s, F(_)) == [i \in DOMAIN s |-> F(s[i])]

Range(s) == {s[i] : i \in DOMAIN s}

Max(S) == CHOOSE x \in S : \A y \in S : y <= x
Min(S) == CHOOSE x \in S : \A y \in S : x <= y

RECURSIVE Pow(_, _)
Pow(b, e) == IF e = 0 THEN 1 ELSE b * Pow(b, e - 1)

-----------------------------------------------------------------------------
(* fetch_dividends: the provider's events of a ticker, sorted by Date *)

fetch_dividends(ticker) ==
    SetToSortedSeq(dividends[ticker], [e \in dividends[ticker] |-> e.Date])

(* build_dividend_dataset *)

build_rows(selected) ==
    \* lines 80-93: one frame per company that has a ticker and a non-empty history
    LET keep(comp) == /\ ticker_for_company(comp) # NoTicker
                      /\ fetch_dividends(ticker_for_company(comp)) # << >>
        frame(comp) == Map(fetch_dividends(ticker_for_company(comp)),
                           LAMBDA e : [Date |-> e.Date, Dividend |-> e.Dividend,
                                       Company |-> comp,
                                       Ticker |-> ticker_for_company(comp)])
    IN  Map(SelectSeq(selected, keep), frame)

RECURSIVE concat(_)
concat(frames) == IF frames = << >> THEN << >> ELSE Head(frames) \o concat(Tail(frames))

sort_company_date(rows) ==
    \* sort_values(["Company", "Date"]) on a table with one row per (Company, Date)
    LET S == Range(rows)
    IN  SetToSortedSeq(S, [r \in S |-> CompanyRank(r.Company) * (NumYears * DaysPerYear) + r.Date])

build_dividend_dataset_open_end(selected, start, end) ==
    \* variant: line 100 with DateOnly < end_dt
    LET rows == build_rows(selected)
        all_df == concat(rows)
        inwin(r) == r.Date >= start /\ r.Date < end
    IN  IF rows = << >> THEN << >>
        ELSE sort_company_date(SelectSeq(all_df, inwin))

build_dividend_dataset(selected, start, end) ==
    LET rows == build_rows(selected)
        all_df == concat(rows)
        inwin(r) == r.Date >= start /\ r.Date <= end
    IN  IF rows = << >> THEN << >>
        ELSE sort_company_date(SelectSeq(all_df, inwin))

-----------------------------------------------------------------------------
(* annual_dividends *)

pct_change(prev, cur) ==
    \* cur / prev - 1 in floats: 0/0 is NaN, x/0 is inf
    IF prev = 0 THEN (IF cur = 0 THEN NA ELSE Some(Inf))
    ELSE Some((Scale * (cur - prev)) \div prev)

group_sum_per_date(d) ==
    \* variant: groupby(["Company","Ticker","Date"]), one row per payment date
    LET keys == {[Company |-> d[i].Company, Ticker |-> d[i].Ticker, Date |-> d[i].Date]
                    : i \in DOMAIN d}
        total(k) == SumSeq(Map(SelectSeq(d, LAMBDA r : /\ r.Company = k.Company
                                                       /\ r.Ticker = k.Ticker
                                                       /\ r.Date = k.Date),
                                  LAMBDA r : r.Dividend))
        ordered == SetToSortedSeq(keys, [k \in keys |->
                        CompanyRank(k.Company) * (NumYears * DaysPerYear) + k.Date])
    IN  Map(ordered, LAMBDA k : [Company |-> k.Company, Ticker |-> k.Ticker,
                                 Year |-> YearOf(k.Date), AnnualDividend |-> total(k)])

group_sum(d) ==
    \* lines 112-116: groupby(["Company","Ticker","Year"]).sum(), sorted by Company, Year
    LET keys == {[Company |-> d[i].Company, Ticker |-> d[i].Ticker, Year |-> YearOf(d[i].Date)]
                    : i \in DOMAIN d}
        total(k) == SumSeq(Map(SelectSeq(d, LAMBDA r : /\ r.Company = k.Company
                                                       /\ r.Ticker = k.Ticker
                                                       /\ YearOf(r.Date) = k.Year),
                                  LAMBDA r : r.Dividend))
        span == 1 + Max({k.Year : k \in keys})
        ordered == SetToSortedSeq(keys, [k \in keys |-> CompanyRank(k.Company) * span + k.Year])
    IN  Map(ordered, LAMBDA k : [Company |-> k.Company, Ticker |-> k.Ticker, Year |-> k.Year,
                                 AnnualDividend |-> total(k)])

\* variant: the first year of a company compared with itself
yoy_first_zero == Some(0)

\* line 118: pct_change() of the first row of a group
yoy_first == NA

annual_dividends(d) ==
    IF d = << >> THEN << >>
    ELSE LET out == group_sum(d)
         IN  [i \in DOMAIN out |->
                 [Company |-> out[i].Company, Ticker |-> out[i].Ticker, Year |-> out[i].Year,
                  AnnualDividend |-> out[i].AnnualDividend,
                  YoY_Growth |->
                     \* line 118: groupby("Company").pct_change(): against the previous row
                     \* of the same company, whatever its year
                     IF i = 1 \/ out[i - 1].Company # out[i].Company THEN yoy_first
                     ELSE pct_change(out[i - 1].AnnualDividend, out[i].AnnualDividend)]]

-----------------------------------------------------------------------------
(* consistency_metrics *)

groups(table) ==
    \* the (Company, Ticker) groups of a table, in groupby's sorted key order
    LET keys == {[Company |-> table[i].Company, Ticker |-> table[i].Ticker] : i \in DOMAIN table}
    IN  SetToSortedSeq(keys, [k \in keys |-> CompanyRank(k.Company)])

rows_of(table, k) == SelectSeq(table, LAMBDA r : r.Company = k.Company /\ r.Ticker = k.Ticker)

lookup(table, k) ==
    \* the row a left merge on ["Company","Ticker"] attaches to key k, or NA
    LET hit == rows_of(table, k)
    IN  IF hit = << >> THEN NA ELSE Some(hit[1])

field(row, name) == IF row = NA THEN NA ELSE Val(row)[name]

years_of(g) == {g[i].Year : i \in DOMAIN g}

YearsPaid(g) == Cardinality(years_of(g))

YearsObserved(g) == Max(years_of(g)) - Min(years_of(g)) + 1

\* variant: the ratio turned over
Coverage_inverted(paid, observed) == (Scale * observed) \div paid

Coverage(paid, observed) == (Scale * paid) \div observed

RECURSIVE streak_loop_no_reset(_, _, _, _)
streak_loop_no_reset(ys, best, cur, prev) ==
    \* variant: the else branch (lines 155-157) counts on instead of starting again
    IF ys = << >> THEN [best |-> best, cur |-> cur]
    ELSE streak_loop_no_reset(Tail(ys), best, cur + 1, Some(Head(ys)))

RECURSIVE streak_loop(_, _, _, _)
\* lines 152-158: the loop over the sorted years, with its three locals
streak_loop(ys, best, cur, prev) ==
    IF ys = << >> THEN [best |-> best, cur |-> cur]
    ELSE LET y == Head(ys)
         IN  IF prev = NA \/ y = Val(prev) + 1
             THEN streak_loop(Tail(ys), best, cur + 1, Some(y))
             ELSE streak_loop(Tail(ys), IF best >= cur THEN best ELSE cur, 1, Some(y))

LongestStreakYears_seeded(g) ==
    \* variant: cur starts at 1 instead of 0
    LET Y == years_of(g)
        ys == SetToSortedSeq(Y, [y \in Y |-> y])
        end == streak_loop(ys, 0, 1, NA)
    IN  IF end.best >= end.cur THEN end.best ELSE end.cur

LongestStreakYears(g) ==
    LET Y == years_of(g)
        ys == SetToSortedSeq(Y, [y \in Y |-> y])
        end == streak_loop(ys, 0, 0, NA)
    IN  IF end.best >= end.cur THEN end.best ELSE end.cur

PaymentsPerYear(events) ==
    \* mean over the years of the number of events in the year
    LET Y == {YearOf(events[i].Date) : i \in DOMAIN events}
    IN  (Scale * Len(events)) \div Cardinality(Y)

consistency_metrics(d, annual) ==
    IF d = << >> THEN << >>
    ELSE LET payments == groups(d)
         IN  [i \in DOMAIN payments |->
                LET k == payments[i]
                    g == rows_of(annual, k)
                    has == g # << >>
                IN  [Company |-> k.Company, Ticker |-> k.Ticker,
                     Payments |-> Len(rows_of(d, k)),
                     YearsPaid |-> IF has THEN Some(YearsPaid(g)) ELSE NA,
                     YearsObserved |-> IF has THEN Some(YearsObserved(g)) ELSE NA,
                     Coverage |-> IF has THEN Some(Coverage(YearsPaid(g), YearsObserved(g))) ELSE NA,
                     LongestStreakYears |-> IF has THEN Some(LongestStreakYears(g)) ELSE NA,
                     PaymentsPerYear |-> IF has THEN Some(PaymentsPerYear(rows_of(d, k))) ELSE NA]]

-----------------------------------------------------------------------------
(* volatility_metrics *)

amounts_of(g) == Map(g, LAMBDA r : r.AnnualDividend)

SumSq(xs) == SumSeq(Map(xs, LAMBDA x : x * x))

RECURSIVE CeilSqrt(_, _, _, _)
\* the least r in lo..hi with (r / Scale)^2 >= num / den, by bisection
CeilSqrt(num, den, lo, hi) ==
    IF lo >= hi THEN hi
    ELSE LET mid == (lo + hi) \div 2
         IN  IF mid * mid * den >= Scale * Scale * num
             THEN CeilSqrt(num, den, lo, mid)
             ELSE CeilSqrt(num, den, mid + 1, hi)

AnnualMean(xs) == (Scale * SumSeq(xs)) \div Len(xs)

AnnualStd(xs) ==
    \* pandas std: the sample standard deviation (ddof = 1), NaN for one value
    LET n == Len(xs)
    IN  IF n < 2 THEN NA
        ELSE Some(CeilSqrt(n * SumSq(xs) - SumSeq(xs) * SumSeq(xs), n * (n - 1),
                           0, Scale * (SumSeq(xs) + 1)))

CV(xs) ==
    \* AnnualStd / AnnualMean: NaN when the std is NaN, and 0/0 when the mean is 0
    LET n == Len(xs)
        s == SumSeq(xs)
    IN  IF n < 2 \/ s = 0 THEN NA
        ELSE Some(CeilSqrt(n * (n * SumSq(xs) - s * s), (n - 1) * s * s, 0, Scale * n))

Cuts_nonpositive(g) ==
    \* variant: (s <= 0) in place of (s < 0)
    Len(SelectSeq(g, LAMBDA r : notna(r.YoY_Growth) /\ Val(r.YoY_Growth) <= 0))

Cuts(g) ==
    \* int((s < 0).sum()) over the YoY_Growth of the group; NaN < 0 is False
    Len(SelectSeq(g, LAMBDA r : notna(r.YoY_Growth) /\ Val(r.YoY_Growth) < 0))

cuts_column(annual) ==
    \* line 181: the per-group counts, re-indexed 0..n-1 in group order
    LET gs == groups(annual)
    IN  [i \in DOMAIN gs |-> Cuts(rows_of(annual, gs[i]))]

volatility_metrics(annual) ==
    IF annual = << >> THEN << >>
    ELSE LET gs == groups(annual)
             cuts == cuts_column(annual)
         IN  [i \in DOMAIN gs |->
                LET xs == amounts_of(rows_of(annual, gs[i]))
                IN  [Company |-> gs[i].Company, Ticker |-> gs[i].Ticker,
                     AnnualMean |-> Some(AnnualMean(xs)),
                     AnnualStd |-> AnnualStd(xs),
                     CV |-> CV(xs),
                     \* positional assignment: row i gets entry i of the column
                     Cuts |-> IF i \in DOMAIN cuts THEN Some(cuts[i]) ELSE NA]]

-----------------------------------------------------------------------------
(* cagr_metrics *)

RECURSIVE FloorRoot(_, _, _, _, _)
\* the greatest r in lo..hi with (r / Scale)^n <= num / den, by bisection
FloorRoot(num, den, n, lo, hi) ==
    IF lo >= hi THEN lo
    ELSE LET mid == (lo + hi + 1) \div 2
         IN  IF Pow(mid, n) * den <= Pow(Scale, n) * num
             THEN FloorRoot(num, den, n, mid, hi)
             ELSE FloorRoot(num, den, n, lo, mid - 1)

all_years(g) ==
    \* variant: line 193 left out, every row kept
    LET P == Range(g)
    IN  SetToSortedSeq(P, [r \in P |-> r.Year])

positive_years(g) ==
    \* lines 192-193: the rows with AnnualDividend > 0, sorted by Year
    LET P == {r \in Range(g) : r.AnnualDividend > 0}
    IN  SetToSortedSeq(P, [r \in P |-> r.Year])

DivCAGR_by_count(g) ==
    \* variant: the span taken as the number of positive records less one, not as
    \* the difference of the two years (line 199)
    LET gg == positive_years(g)
    IN  IF Len(gg) < 2 THEN NA
        ELSE LET first == gg[1]
                 last == gg[Len(gg)]
                 n == Len(gg) - 1
             IN  IF n <= 0 \/ first.AnnualDividend <= 0 THEN NA
                 ELSE Some(FloorRoot(last.AnnualDividend, first.AnnualDividend, n, 0,
                                     Scale * (last.AnnualDividend \div first.AnnualDividend + 1))
                           - Scale)

DivCAGR(g) ==
    LET gg == positive_years(g)
    IN  IF Len(gg) < 2 THEN NA
        ELSE LET first == gg[1]
                 last == gg[Len(gg)]
                 n == last.Year - first.Year
             IN  IF n <= 0 \/ first.AnnualDividend <= 0 THEN NA
                 ELSE Some(FloorRoot(last.AnnualDividend, first.AnnualDividend, n, 0,
                                     Scale * (last.AnnualDividend \div first.AnnualDividend + 1))
                           - Scale)

cagr_metrics(annual) ==
    IF annual = << >> THEN << >>
    ELSE LET gs == groups(annual)
         IN  [i \in DOMAIN gs |->
                [Company |-> gs[i].Company, Ticker |-> gs[i].Ticker,
                 DivCAGR |-> DivCAGR(rows_of(annual, gs[i]))]]

-----------------------------------------------------------------------------
(* fetch_prices and yield_metrics *)

fetch_prices(ticker, from, to) ==
    \* the rows of the frame dated in [from, to] that have a Close, sorted by Date
    [has_adj |-> prices[ticker].has_adj,
     rows |-> Map(SelectSeq(DateSeq, LAMBDA d : /\ d >= from /\ d <= to
                                                /\ prices[ticker].rows[d] # NA
                                                /\ Val(prices[ticker].rows[d]).Close # NA),
                     LAMBDA d : Val(prices[ticker].rows[d]))]

avg_price(p) ==
    IF p.rows = << >> THEN NA
    ELSE LET col == IF p.has_adj THEN "Adj" ELSE "Close"
             vals == Map(SelectSeq(p.rows, LAMBDA r : r[col] # NA), LAMBDA r : Val(r[col]))
         IN  IF vals = << >> THEN NA ELSE Some((Scale * SumSeq(vals)) \div Len(vals))

yield_of(div, avg) ==
    \* div / avg when avg is defined and not 0, else NA
    IF notna(avg) /\ Val(avg) # 0 THEN Some((Scale * Scale * div) \div Val(avg)) ELSE NA

yield_row_ttm_from_window(comp, start, end, df_events) ==
    \* variant: the trailing sum taken from the window's event table, not from the
    \* full history (line 228)
    LET tic == ticker_for_company(comp)
        div_all == fetch_dividends(tic)
        ttm_start == end - TTMDays
        ttm_div == SumSeq(Map(SelectSeq(df_events, LAMBDA e : e.Company = comp /\ e.Date >= ttm_start),
                              LAMBDA e : e.Dividend))
        period_div == SumSeq(Map(SelectSeq(df_events, LAMBDA r : r.Company = comp),
                                 LAMBDA r : r.Dividend))
        avg_ttm == avg_price(fetch_prices(tic, ttm_start, end))
        avg_period == avg_price(fetch_prices(tic, start, end))
    IN  IF div_all = << >>
        THEN [Company |-> comp, Ticker |-> tic, TTM_Dividend |-> NA, TTM_Yield |-> NA,
              Period_Yield |-> NA]
        ELSE [Company |-> comp, Ticker |-> tic,
              TTM_Dividend |-> IF ttm_div # 0 THEN Some(ttm_div) ELSE NA,
              TTM_Yield |-> yield_of(ttm_div, avg_ttm),
              Period_Yield |-> yield_of(period_div, avg_period)]

yield_row(comp, start, end, df_events) ==
    LET tic == ticker_for_company(comp)
        div_all == fetch_dividends(tic)
        ttm_start == end - TTMDays
        ttm_div == SumSeq(Map(SelectSeq(div_all, LAMBDA e : e.Date >= ttm_start /\ e.Date <= end),
                              LAMBDA e : e.Dividend))
        period_div == SumSeq(Map(SelectSeq(df_events, LAMBDA r : r.Company = comp),
                                 LAMBDA r : r.Dividend))
        avg_ttm == avg_price(fetch_prices(tic, ttm_start, end))
        avg_period == avg_price(fetch_prices(tic, start, end))
    IN  IF div_all = << >>
        THEN [Company |-> comp, Ticker |-> tic, TTM_Dividend |-> NA, TTM_Yield |-> NA,
              Period_Yield |-> NA]
        ELSE [Company |-> comp, Ticker |-> tic,
              TTM_Dividend |-> IF ttm_div # 0 THEN Some(ttm_div) ELSE NA,
              TTM_Yield |-> yield_of(ttm_div, avg_ttm),
              Period_Yield |-> yield_of(period_div, avg_period)]

yield_metrics(selected, start, end, df_events) ==
    Map(SelectSeq(selected, LAMBDA comp : ticker_for_company(comp) # NoTicker),
        LAMBDA comp : yield_row(comp, start, end, df_events))

-----------------------------------------------------------------------------
(* dividend_score *)

\* the constants of the source, in units of 1/Scale
CAGR_CLAMP == 50
YIELD_CAP == 10
CV_CAP == 200
CUTS_CAP == 4
W_CONSISTENCY == 40
W_GROWTH == 25
W_YIELD == 20
W_STABILITY == 15

clip(lo, hi, x) == IF x < lo THEN lo ELSE IF x > hi THEN hi ELSE x

clamp01(x) == IF isna(x) THEN NA ELSE Some(clip(0, Scale, Val(x)))

cons_coverage(x) == IF notna(x) THEN clamp01(x) ELSE NA

cons_streak_own_max(x, column) ==
    \* variant: mx taken per row, from the row's own streak
    IF notna(x) /\ Val(x) > 0 THEN Some((Scale * Val(x)) \div Val(x)) ELSE NA

cons_streak(x, column) ==
    \* lines 297-302: the streak over the maximum of the column
    LET present == {Val(column[i]) : i \in {j \in DOMAIN column : notna(column[j])}}
    IN  IF present # {}
        THEN LET mx == Max(present)
             IN  IF notna(x) /\ mx # 0 /\ mx > 0 THEN Some((Scale * Val(x)) \div mx) ELSE NA
        ELSE NA

mean_propagating(a, b) ==
    \* variant: mean(axis=1, skipna=False)
    IF isna(a) \/ isna(b) THEN NA
    ELSE Some((Val(a) + Val(b)) \div 2)

mean_skipna(a, b) ==
    \* DataFrame.mean(axis=1, skipna=True) over two columns
    IF isna(a) /\ isna(b) THEN NA
    ELSE IF isna(a) THEN b
    ELSE IF isna(b) THEN a
    ELSE Some((Val(a) + Val(b)) \div 2)

norm_cagr_unclamped(x) ==
    \* variant: line 310 left out
    IF isna(x) THEN NA
    ELSE Some(Val(x) + CAGR_CLAMP)

norm_cagr(x) ==
    IF isna(x) THEN NA
    ELSE Some(clip(-CAGR_CLAMP, CAGR_CLAMP, Val(x)) + CAGR_CLAMP)

norm_yield_defaulted(x) ==
    \* variant: an undefined yield scored as 0
    IF isna(x) THEN Some(0)
    ELSE Some((Scale * clip(0, YIELD_CAP, Val(x))) \div YIELD_CAP)

norm_yield(x) ==
    IF isna(x) THEN NA
    ELSE Some((Scale * clip(0, YIELD_CAP, Val(x))) \div YIELD_CAP)

norm_cv(x) ==
    IF isna(x) THEN NA
    ELSE Some(Scale - (Scale * clip(0, CV_CAP, Val(x))) \div CV_CAP)

norm_cuts(x) ==
    IF isna(x) THEN NA
    ELSE Some(Scale - (Scale * clip(0, CUTS_CAP, Val(x))) \div CUTS_CAP)

fillna0(x) == IF isna(x) THEN 0 ELSE Val(x)

weighted_score(consistency, growth, yield_score, stability) ==
    \* lines 346-351, in units of 1/Scale of a score point
    W_CONSISTENCY * fillna0(consistency) + W_GROWTH * fillna0(growth)
        + W_YIELD * fillna0(yield_score) + W_STABILITY * fillna0(stability)

score_row_defaulting(r, streaks) ==
    \* variant: fillna(0) applied to the stored sub-score columns, not only inside
    \* the weighted sum
    LET cc == cons_coverage(r.Coverage)
        cs == cons_streak(r.LongestStreakYears, streaks)
        consistency == Some(fillna0(mean_skipna(cc, cs)))
        growth == Some(fillna0(norm_cagr(r.DivCAGR)))
        yield_score == Some(fillna0(norm_yield(r.TTM_Yield)))
        scv == norm_cv(r.CV)
        scuts == norm_cuts(r.Cuts)
        stability == Some(fillna0(mean_skipna(scv, scuts)))
    IN  [r EXCEPT !.cons_coverage = cc, !.cons_streak = cs, !.consistency = consistency,
                  !.growth = growth, !.yield_score = yield_score,
                  !.stability_cv = scv, !.stability_cuts = scuts, !.stability = stability,
                  !.DividendScore =
                      Some(weighted_score(consistency, growth, yield_score, stability))]

score_row(r, streaks) ==
    LET cc == cons_coverage(r.Coverage)
        cs == cons_streak(r.LongestStreakYears, streaks)
        consistency == mean_skipna(cc, cs)
        growth == norm_cagr(r.DivCAGR)
        yield_score == norm_yield(r.TTM_Yield)
        scv == norm_cv(r.CV)
        scuts == norm_cuts(r.Cuts)
        stability == mean_skipna(scv, scuts)
    IN  [r EXCEPT !.cons_coverage = cc, !.cons_streak = cs, !.consistency = consistency,
                  !.growth = growth, !.yield_score = yield_score,
                  !.stability_cv = scv, !.stability_cuts = scuts, !.stability = stability,
                  !.DividendScore =
                      Some(weighted_score(consistency, growth, yield_score, stability))]

dividend_score(table) ==
    LET streaks == Map(table, LAMBDA r : r.LongestStreakYears)
    IN  Map(table, LAMBDA r : score_row(r, streaks))

-----------------------------------------------------------------------------
(* add_persona *)

DEFENSIVE == "Income Defensive"
GROWTH == "Growth Income"
YIELD_HUNTER == "Yield Hunter"
SPECULATIVE == "Speculative"
Personas == {DEFENSIVE, GROWTH, YIELD_HUNTER, SPECULATIVE}

\* the thresholds of persona_row, in units of 1/Scale (Cuts is a count)
DEF_COVERAGE == 70
DEF_CV == 60
DEF_CUTS == 1
GROWTH_CAGR == 5
YIELD_TTM == 5

is_defensive(r) ==
    \* lines 266-268
    /\ notna(r.Coverage) /\ notna(r.CV)
    /\ Val(r.Coverage) >= DEF_COVERAGE
    /\ (isna(r.CV) \/ Val(r.CV) <= DEF_CV)
    /\ (isna(r.Cuts) \/ Val(r.Cuts) <= DEF_CUTS)

is_growth(r) == notna(r.DivCAGR) /\ Val(r.DivCAGR) >= GROWTH_CAGR

is_yield(r) == notna(r.TTM_Yield) /\ Val(r.TTM_Yield) >= YIELD_TTM

persona_row_yield_first(r) ==
    \* variant: the yield test (lines 274-276) ahead of the growth test (270-272)
    IF is_defensive(r) THEN DEFENSIVE
    ELSE IF is_yield(r) THEN YIELD_HUNTER
    ELSE IF is_growth(r) THEN GROWTH
    ELSE SPECULATIVE

persona_row(r) ==
    IF is_defensive(r) THEN DEFENSIVE
    ELSE IF is_growth(r) THEN GROWTH
    ELSE IF is_yield(r) THEN YIELD_HUNTER
    ELSE SPECULATIVE

add_persona(table) ==
    Map(table, LAMBDA r : [r EXCEPT !.Persona = Some(persona_row(r))])

-----------------------------------------------------------------------------
(* main(): the "Generate Dividends" handler *)

raw_row(c, v, g, y) ==
    \* one row of the master metrics table (lines 404-406): the consistency row and
    \* what the three left merges attach to it
    [Company |-> c.Company, Ticker |-> c.Ticker, Payments |-> c.Payments,
     YearsPaid |-> c.YearsPaid, YearsObserved |-> c.YearsObserved,
     Coverage |-> c.Coverage, LongestStreakYears |-> c.LongestStreakYears,
     PaymentsPerYear |-> c.PaymentsPerYear,
     AnnualMean |-> field(v, "AnnualMean"), AnnualStd |-> field(v, "AnnualStd"),
     CV |-> field(v, "CV"), Cuts |-> field(v, "Cuts"),
     DivCAGR |-> field(g, "DivCAGR"),
     TTM_Dividend |-> field(y, "TTM_Dividend"), TTM_Yield |-> field(y, "TTM_Yield"),
     Period_Yield |-> field(y, "Period_Yield"),
     cons_coverage |-> NA, cons_streak |-> NA, consistency |-> NA, growth |-> NA,
     yield_score |-> NA, stability_cv |-> NA, stability_cuts |-> NA, stability |-> NA,
     DividendScore |-> NA, Persona |-> NA]

merge_metrics(cons, vol, cagr, yld) ==
    Map(cons, LAMBDA c : raw_row(c, lookup(vol, c), lookup(cagr, c), lookup(yld, c)))

pipeline(selected, start, end, d, a) ==
    \* lines 398-409
    LET cons == consistency_metrics(d, a)
        vol == volatility_metrics(a)
        cagr == cagr_metrics(a)
        yld == yield_metrics(selected, start, end, d)
    IN  add_persona(dividend_score(merge_metrics(cons, vol, cagr, yld)))

raises(selected, failing) ==
    \* a request of the handler raises: the handler has no try/except around its fetches
    \E i \in DOMAIN selected : ticker_for_company(selected[i]) \in failing

\* per-share amounts of an event, in sen; 0 is an event that pays nothing
Amounts == {0, 1, 2}
Events == [Date : Dates, Dividend : Amounts]

RECURSIVE Histories(_)
\* sets of at most n events
Histories(n) ==
    IF n = 0 THEN {{}}
    ELSE LET H == Histories(n - 1)
         IN  H \cup {h \cup {e} : h \in H, e \in Events}

OneEventPerDate(h) == \A e1, e2 \in h : e1.Date = e2.Date => e1 = e2

SEN_PRICE == 20
PriceRow == Some([Adj |-> Some(SEN_PRICE), Close |-> Some(SEN_PRICE)])
\* a ticker listed after the first year: no price rows before, a flat price after
ListedLate == [has_adj |-> TRUE,
               rows |-> [d \in Dates |-> IF YearOf(d) = 0 THEN NA ELSE PriceRow]]

Selections == {<< company_options[1] >>, company_options}
FilterChoices == {{}, {YIELD_HUNTER}}

\* the extractor outputs cons, vol, cagr, yld of main(), none computed yet; last
\* names the extractor that ran last
NoParts == [cons |-> NA, vol |-> NA, cagr |-> NA, yld |-> NA, last |-> "none"]

Init ==
    /\ dividends \in [Tickers -> {h \in Histories(MaxEvents) : OneEventPerDate(h)}]
    /\ Cardinality(UNION {{<<t, e>> : e \in dividends[t]} : t \in Tickers}) <= MaxEvents
    /\ prices = [t \in Tickers |-> ListedLate]
    /\ down = {}
    /\ selected_companies = << >>
    /\ start_dt = 0
    /\ end_dt = 0
    /\ persona_filter = {}
    /\ status = "idle"
    /\ df = << >>
    /\ ann = << >>
    /\ metrics = << >>
    /\ parts = NoParts
    /\ OtherPagesIdle

NoTables == /\ df' = << >> /\ ann' = << >> /\ metrics' = << >> /\ parts' = NoParts

\* lines 383-385: nothing selected
GenerateNoSelection ==
    /\ status = "idle"
    /\ selected_companies' = << >>
    /\ status' = "warning_select"
    /\ NoTables
    /\ UNCHANGED <<dividends, prices, down, start_dt, end_dt, persona_filter>>
    /\ UNCHANGED other_pages

\* lines 386-388: start after end
GenerateBadDates(selected, start, end) ==
    /\ status = "idle"
    /\ start > end
    /\ selected_companies' = selected /\ start_dt' = start /\ end_dt' = end
    /\ status' = "error_dates"
    /\ NoTables
    /\ UNCHANGED <<dividends, prices, down, persona_filter>>
    /\ UNCHANGED other_pages

\* line 391 with a request that raises: nothing in main() catches it
GenerateRaises(selected, start, end, failing) ==
    /\ status = "idle"
    /\ start <= end
    /\ failing # {}
    /\ raises(selected, failing)
    /\ selected_companies' = selected /\ start_dt' = start /\ end_dt' = end
    /\ down' = failing
    /\ status' = "exception"
    /\ NoTables
    /\ UNCHANGED <<dividends, prices, persona_filter>>
    /\ UNCHANGED other_pages

\* variant: lines 393-395 left out, an empty df goes through the pipeline
Generate_without_nodata_return(selected, start, end, filters) ==
    /\ status = "idle"
    /\ start <= end
    /\ selected_companies' = selected /\ start_dt' = start /\ end_dt' = end
    /\ \E d \in {build_dividend_dataset(selected, start, end)} :
       \E a \in {annual_dividends(d)} :
       \E m \in {pipeline(selected, start, end, d, a)} :
       \E pfilter \in filters :
           /\ status' = "rendered"
           /\ persona_filter' = pfilter
           /\ parts' = NoParts
           /\ metrics' = m
           /\ df' = d
           /\ ann' = a
    /\ UNCHANGED <<dividends, prices, down>>
    /\ UNCHANGED other_pages

\* variant: lines 413-414 left out, the persona filter narrows the metrics alone
Generate_filter_metrics_only(selected, start, end, filters) ==
    /\ status = "idle"
    /\ start <= end
    /\ selected_companies' = selected /\ start_dt' = start /\ end_dt' = end
    /\ \E d \in {build_dividend_dataset(selected, start, end)} :
       IF d = << >>
       THEN /\ status' = "warning_nodata"
            /\ NoTables
            /\ UNCHANGED persona_filter
       ELSE \E a \in {annual_dividends(d)} :
            \E m \in {pipeline(selected, start, end, d, a)} :
            \E pfilter \in filters :
                /\ status' = "rendered"
                /\ persona_filter' = pfilter
                /\ parts' = NoParts
                /\ metrics' = IF pfilter # {}
                              THEN SelectSeq(m, LAMBDA r : Val(r.Persona) \in pfilter)
                              ELSE m
                /\ df' = d
                /\ ann' = a
    /\ UNCHANGED <<dividends, prices, down>>
    /\ UNCHANGED other_pages

\* lines 390-414; filters: the values the persona filter widget may hold
Generate(selected, start, end, filters) ==
    /\ status = "idle"
    /\ start <= end
    /\ selected_companies' = selected /\ start_dt' = start /\ end_dt' = end
    /\ \E d \in {build_dividend_dataset(selected, start, end)} :
       IF d = << >>
       THEN /\ status' = "warning_nodata"
            /\ NoTables
            /\ UNCHANGED persona_filter
       ELSE \E a \in {annual_dividends(d)} :
            \E m \in {pipeline(selected, start, end, d, a)} :
            \E pfilter \in filters :
            \E keep \in {{m[i].Company : i \in {j \in DOMAIN m : Val(m[j].Persona) \in pfilter}}} :
                /\ status' = "rendered"
                /\ persona_filter' = pfilter
                /\ parts' = NoParts
                /\ IF pfilter # {}
                   THEN /\ metrics' = SelectSeq(m, LAMBDA r : r.Company \in keep)
                        /\ df' = SelectSeq(d, LAMBDA r : r.Company \in keep)
                        /\ ann' = SelectSeq(a, LAMBDA r : r.Company \in keep)
                   ELSE /\ metrics' = m
                        /\ df' = d
                        /\ ann' = a
    /\ UNCHANGED <<dividends, prices, down>>
    /\ UNCHANGED other_pages

Rerun ==
    \* any other interaction reruns the script with the button not pressed: the
    \* tables are locals of main() and nothing of the last run is kept
    /\ status # "idle"
    /\ status' = "idle"
    /\ NoTables
    /\ selected_companies' = << >> /\ start_dt' = 0 /\ end_dt' = 0
    /\ persona_filter' = {} /\ down' = {}
    /\ UNCHANGED <<dividends, prices>>
    /\ UNCHANGED other_pages

Outages == {{t} : t \in Tickers}

Next ==
    \/ GenerateNoSelection
    \/ \E selected \in Selections, start \in Dates, end \in Dates :
            GenerateBadDates(selected, start, end)
    \/ \E selected \in Selections, start \in Dates, end \in Dates, failing \in Outages :
            GenerateRaises(selected, start, end, failing)
    \/ \E selected \in Selections, start \in Dates, end \in Dates :
            Generate(selected, start, end, FilterChoices)
    \/ Rerun

Spec == Init /\ [][Next]_vars

-----------------------------------------------------------------------------
(* The analytics functions alone: the provider answers every request and the *)
(* persona filter is left blank, so the tables of a run are the outputs of   *)
(* build_dividend_dataset, annual_dividends, the four extractors,            *)
(* dividend_score and add_persona on the drawn provider data.                *)

NextAnalytics ==
    \E start \in Dates, end \in Dates :
        Generate(company_options, start, end, {{}})

SpecAnalytics == Init /\ [][NextAnalytics]_vars

-----------------------------------------------------------------------------
(* dividend_score and add_persona alone, on metric tables drawn from bounded *)
(* sets: any mix of defined and undefined metrics, values inside and outside *)
(* the clamp ranges, one company or a company and a peer.                    *)

CoverageVals == {NA, Some(40), Some(70), Some(100)}
StreakVals == {NA, Some(1), Some(3)}
CagrVals == {NA, Some(-75), Some(5), Some(80)}
YieldVals == {NA, Some(0), Some(5), Some(25)}
CvVals == {NA, Some(0), Some(60), Some(61), Some(250)}
CutsVals == {NA, Some(0), Some(2), Some(6)}

bundle(company, cov, streak, cagr, yld, cv, cuts) ==
    raw_row([Company |-> company, Ticker |-> ticker_for_company(company), Payments |-> 1,
             YearsPaid |-> NA, YearsObserved |-> NA, Coverage |-> cov,
             LongestStreakYears |-> streak, PaymentsPerYear |-> NA],
            Some([AnnualMean |-> NA, AnnualStd |-> NA, CV |-> cv, Cuts |-> cuts]),
            Some([DivCAGR |-> cagr]),
            Some([TTM_Dividend |-> NA, TTM_Yield |-> yld, Period_Yield |-> NA]))

Bundles(company) ==
    {bundle(company, cov, streak, cagr, yld, cv, cuts) :
        cov \in CoverageVals, streak \in StreakVals, cagr \in CagrVals,
        yld \in YieldVals, cv \in CvVals, cuts \in CutsVals}

PeerBundles(company) ==
    {bundle(company, NA, NA, NA, NA, NA, NA),
     bundle(company, Some(100), Some(2), Some(5), Some(5), Some(60), Some(0)),
     bundle(company, Some(40), Some(5), Some(-75), NA, Some(250), Some(6)),
     bundle(company, Some(50), Some(1), Some(8), Some(7), Some(61), Some(2))}

InitScore ==
    /\ metrics \in {<< r >> : r \in Bundles(company_options[1])}
                   \cup {<< r, q >> : r \in Bundles(company_options[1]),
                                     q \in PeerBundles(company_options[2])}
    /\ status = "raw"
    /\ dividends = [t \in Tickers |-> {}]
    /\ prices = [t \in Tickers |-> ListedLate]
    /\ down = {}
    /\ selected_companies = company_options
    /\ start_dt = 0
    /\ end_dt = 0
    /\ persona_filter = {}
    /\ df = << >>
    /\ ann = << >>
    /\ parts = NoParts
    /\ OtherPagesIdle

\* line 408
Score ==
    /\ status = "raw"
    /\ metrics' = dividend_score(metrics)
    /\ status' = "scored"
    /\ UNCHANGED <<dividends, prices, down, selected_companies, start_dt, end_dt,
                   persona_filter, df, ann, parts>>
    /\ UNCHANGED other_pages

\* line 409
Label ==
    /\ status = "scored"
    /\ metrics' = add_persona(metrics)
    /\ status' = "labeled"
    /\ UNCHANGED <<dividends, prices, down, selected_companies, start_dt, end_dt,
                   persona_filter, df, ann, parts>>
    /\ UNCHANGED other_pages

NextScore == Score \/ Label

SpecScore == InitScore /\ [][NextScore]_vars

-----------------------------------------------------------------------------
(* The extractor stage of the handler, call by call (lines 398-406): the four *)
(* extractors run one at a time in any order on the tables df and ann, each   *)
(* step leaving in df and ann what the call leaves in them, then the merges.  *)

ExtractWindows == {<< 0, Max(Dates) >>, << DaysPerYear, Max(Dates) >>}

annual_after_cagr_in_place(annual) ==
    \* variant: line 193 as an in-place filter of the caller's table
    SelectSeq(annual, LAMBDA r : r.AnnualDividend > 0)

\* lines 192-193: dropna, sort_values and the boolean mask build new frames; the
\* caller's annual table is left as it was
annual_after_cagr(annual) == annual

\* the provider's data of this stage: any history of the base company, and for the
\* competitor no event or one event in the second year
InitExtract ==
    /\ Init
    /\ dividends[COMPETITORS["S P Setia"]] \subseteq {[Date |-> DaysPerYear, Dividend |-> 1]}

\* lines 391-397: the event table and the annual table of a run
BeginExtract(start, end) ==
    /\ status = "idle"
    /\ start <= end
    /\ \E d \in {build_dividend_dataset(company_options, start, end)} :
          /\ d # << >>
          /\ df' = d
          /\ ann' = annual_dividends(d)
    /\ selected_companies' = company_options /\ start_dt' = start /\ end_dt' = end
    /\ status' = "extracting"
    /\ parts' = NoParts
    /\ UNCHANGED <<dividends, prices, down, persona_filter, metrics>>
    /\ UNCHANGED other_pages

\* line 398
RunConsistency ==
    /\ status = "extracting" /\ isna(parts.cons)
    /\ parts' = [parts EXCEPT !.cons = Some(consistency_metrics(df, ann)),
                              !.last = "consistency"]
    /\ UNCHANGED <<dividends, prices, down, selected_companies, start_dt, end_dt,
                   persona_filter, status, df, ann, metrics>>
    /\ UNCHANGED other_pages

\* line 399
RunVolatility ==
    /\ status = "extracting" /\ isna(parts.vol)
    /\ parts' = [parts EXCEPT !.vol = Some(volatility_metrics(ann)), !.last = "volatility"]
    /\ UNCHANGED <<dividends, prices, down, selected_companies, start_dt, end_dt,
                   persona_filter, status, df, ann, metrics>>
    /\ UNCHANGED other_pages

\* line 400
RunCagr ==
    /\ status = "extracting" /\ isna(parts.cagr)
    /\ parts' = [parts EXCEPT !.cagr = Some(cagr_metrics(ann)), !.last = "cagr"]
    /\ ann' = annual_after_cagr(ann)
    /\ UNCHANGED <<dividends, prices, down, selected_companies, start_dt, end_dt,
                   persona_filter, status, df, metrics>>
    /\ UNCHANGED other_pages

\* line 401; the DateOnly column of line 226 goes on the copy that the cache of
\* fetch_dividends (st.cache_data, line 45) hands out, not on df
RunYield ==
    /\ status = "extracting" /\ isna(parts.yld)
    /\ parts' = [parts EXCEPT
                    !.yld = Some(yield_metrics(selected_companies, start_dt, end_dt, df)),
                    !.last = "yield"]
    /\ UNCHANGED <<dividends, prices, down, selected_companies, start_dt, end_dt,
                   persona_filter, status, df, ann, metrics>>
    /\ UNCHANGED other_pages

\* lines 404-406
Merge ==
    /\ status = "extracting"
    /\ notna(parts.cons) /\ notna(parts.vol) /\ notna(parts.cagr) /\ notna(parts.yld)
    /\ metrics' = merge_metrics(Val(parts.cons), Val(parts.vol), Val(parts.cagr),
                                Val(parts.yld))
    /\ status' = "merged"
    /\ UNCHANGED <<dividends, prices, down, selected_companies, start_dt, end_dt,
                   persona_filter, df, ann, parts>>
    /\ UNCHANGED other_pages

NextExtract ==
    \/ \E w \in ExtractWindows : BeginExtract(w[1], w[2])
    \/ RunConsistency
    \/ RunVolatility
    \/ RunCagr
    \/ RunYield
    \/ Merge

SpecExtract == InitExtract /\ [][NextExtract]_vars

-----------------------------------------------------------------------------
(* The analytics on annual series of up to four years: the event table df is *)
(* drawn directly, one event at the first day of each year a company paid in, *)
(* for the base company alone or beside a competitor with a fixed series, and *)
(* the provider holds the same events.                                        *)

SeriesYears == 0 .. 3

\* the event rows of a company for a series f: year -> amount, sorted by Date
series_rows(company, f) ==
    LET Y == DOMAIN f
        ys == SetToSortedSeq(Y, [y \in Y |-> y])
    IN  [i \in DOMAIN ys |-> [Date |-> ys[i] * DaysPerYear, Dividend |-> f[ys[i]],
                              Company |-> company,
                              Ticker |-> ticker_for_company(company)]]

SeriesTables(company) ==
    {series_rows(company, f) :
        f \in UNION {[Y -> Amounts] : Y \in SUBSET SeriesYears \ {{}}}}

\* the competitor's series: 2, 1, 1 in the first three years
PeerSeries == (0 :> 2) @@ (1 :> 1) @@ (2 :> 1)

InitSeries ==
    /\ df \in SeriesTables(company_options[1])
                 \cup {d \o series_rows(company_options[2], PeerSeries) :
                          d \in SeriesTables(company_options[1])}
    /\ dividends = [t \in Tickers |->
                       {[Date |-> df[i].Date, Dividend |-> df[i].Dividend]
                           : i \in {j \in DOMAIN df : df[j].Ticker = t}}]
    /\ prices = [t \in Tickers |-> ListedLate]
    /\ down = {}
    /\ selected_companies = company_options
    /\ start_dt = 0
    /\ end_dt = Max(SeriesYears) * DaysPerYear + DaysPerYear - 1
    /\ persona_filter = {}
    /\ status = "series"
    /\ ann = << >>
    /\ metrics = << >>
    /\ parts = NoParts
    /\ OtherPagesIdle

\* lines 397-409 on the drawn event table
Analyse ==
    /\ status = "series"
    /\ \E a \in {annual_dividends(df)} :
          /\ ann' = a
          /\ metrics' = pipeline(selected_companies, start_dt, end_dt, df, a)
    /\ status' = "analysed"
    /\ UNCHANGED <<dividends, prices, down, selected_companies, start_dt, end_dt,
                   persona_filter, df, parts>>
    /\ UNCHANGED other_pages

NextSeries == Analyse

SpecSeries == InitSeries /\ [][NextSeries]_vars

-----------------------------------------------------------------------------
(* Properties of a run of the handler (SpecAnalytics, Spec).  The provider's *)
(* data is read from the variable dividends, not from the tables under test. *)

RECURSIVE SumAmounts(_)
\* the sum of the amounts of a set of provider events
SumAmounts(E) ==
    IF E = {} THEN 0
    ELSE LET e == CHOOSE x \in E : TRUE
         IN  e.Dividend + SumAmounts(E \ {e})

\* the provider's events of a company dated in the window of the last run
EventsInWindow(c) ==
    {e \in dividends[ticker_for_company(c)] : e.Date >= start_dt /\ e.Date <= end_dt}

\* the years of the window in which the company's events sum to more than 0
PositiveYears(c) ==
    {y \in Years : SumAmounts({e \in EventsInWindow(c) : YearOf(e.Date) = y}) > 0}

AnnualRows(c) == SelectSeq(ann, LAMBDA r : r.Company = c)

\* the last run went through the whole pipeline and showed every company
Rendered == status = "rendered" /\ persona_filter = {}

\* C1: annual_dividends(build_dividend_dataset(...)) has at most one record per
\* (company, year), and for each selected company the sum of its AnnualDividend
\* values is the sum of the amounts of its events dated in [start, end].
C1_Conservation ==
    Rendered =>
        /\ \A i, j \in DOMAIN ann :
              (ann[i].Company = ann[j].Company /\ ann[i].Year = ann[j].Year) => i = j
        /\ \A c \in Range(selected_companies) :
              SumSeq(amounts_of(AnnualRows(c))) = SumAmounts(EventsInWindow(c))

\* two events of one year inside a window that starts after the first date are
\* summed into one annual record
C1_Witness ==
    /\ Rendered
    /\ start_dt > 0
    /\ \E c \in Range(selected_companies) :
          /\ Cardinality(EventsInWindow(c)) = 2
          /\ Len(AnnualRows(c)) = 1
          /\ AnnualRows(c)[1].AnnualDividend = 3

\* C5: the YoY growth of each company's earliest annual record is undefined.
C5_FirstYearUndefined ==
    Rendered =>
        \A i \in DOMAIN ann :
            (\A j \in DOMAIN ann : ann[j].Company = ann[i].Company => ann[j].Year >= ann[i].Year)
                => ann[i].YoY_Growth = NA

\* a company with two annual records: the first has no growth, the second has
C5_Witness ==
    /\ Rendered
    /\ \E i, j \in DOMAIN ann :
          /\ ann[i].Company = ann[j].Company
          /\ ann[i].Year < ann[j].Year
          /\ ann[i].YoY_Growth = NA
          /\ ann[j].YoY_Growth # NA

\* C6: the YoY growth of a record for year Y is defined only when the same
\* company has a record for year Y-1, and then it is sum(Y)/sum(Y-1) - 1; after
\* a gap year the growth is undefined.
C6_GapUndefined ==
    Rendered =>
        \A i \in DOMAIN ann :
            notna(ann[i].YoY_Growth) =>
                \E j \in DOMAIN ann :
                    /\ ann[j].Company = ann[i].Company
                    /\ ann[j].Year = ann[i].Year - 1
                    /\ ann[i].YoY_Growth
                          = pct_change(ann[j].AnnualDividend, ann[i].AnnualDividend)

\* C7: for every company with at least one event in the window, the Coverage
\* of consistency_metrics is defined and lies in [0, 1].
C7_CoverageInUnit ==
    Rendered =>
        \A c \in Range(selected_companies) :
            EventsInWindow(c) # {} =>
                \E i \in DOMAIN metrics :
                    /\ metrics[i].Company = c
                    /\ notna(metrics[i].Coverage)
                    /\ Val(metrics[i].Coverage) >= 0
                    /\ Val(metrics[i].Coverage) <= Scale

\* a company that paid in two of three observed years: coverage strictly inside
C7_Witness ==
    /\ Rendered
    /\ \E i \in DOMAIN metrics :
          /\ metrics[i].YearsPaid = Some(2)
          /\ metrics[i].YearsObserved = Some(3)
          /\ Val(metrics[i].Coverage) > 0
          /\ Val(metrics[i].Coverage) < Scale

\* C8: in every row of consistency_metrics,
\* LongestStreakYears <= YearsPaid <= YearsObserved.
C8_StreakPaidObserved ==
    Rendered =>
        \A i \in DOMAIN metrics :
            /\ notna(metrics[i].LongestStreakYears)
            /\ notna(metrics[i].YearsPaid)
            /\ notna(metrics[i].YearsObserved)
            /\ Val(metrics[i].LongestStreakYears) <= Val(metrics[i].YearsPaid)
            /\ Val(metrics[i].YearsPaid) <= Val(metrics[i].YearsObserved)

\* both inequalities strict: years Y and Y+2 paid, Y+1 missing
C8_Witness ==
    /\ Rendered
    /\ \E i \in DOMAIN metrics :
          /\ Val(metrics[i].LongestStreakYears) < Val(metrics[i].YearsPaid)
          /\ Val(metrics[i].YearsPaid) < Val(metrics[i].YearsObserved)

\* C9: DivCAGR is undefined exactly for the companies with fewer than two years
\* of strictly positive annual amount (two such years never coincide), and
\* defined for every other company.
C9_CagrDefinedIff ==
    Rendered =>
        \A i \in DOMAIN metrics :
            isna(metrics[i].DivCAGR) <=> Cardinality(PositiveYears(metrics[i].Company)) < 2

\* two annual records, one of them summing to 0: CAGR undefined
C9_Witness ==
    /\ Rendered
    /\ \E i \in DOMAIN metrics :
          /\ metrics[i].YearsPaid = Some(2)
          /\ Cardinality(PositiveYears(metrics[i].Company)) = 1
          /\ isna(metrics[i].DivCAGR)

-----------------------------------------------------------------------------
(* Properties of dividend_score and add_persona on any metric table (SpecScore) *)

Scored == status \in {"scored", "labeled"}

SubScores == {"cons_coverage", "cons_streak", "consistency", "growth", "yield_score",
              "stability_cv", "stability_cuts", "stability"}

\* C3: for every metric bundle, whatever mix of its metrics is defined, the
\* DividendScore of dividend_score is defined and lies in [0, 100].
C3_ScoreInRange ==
    Scored =>
        \A i \in DOMAIN metrics :
            /\ notna(metrics[i].DividendScore)
            /\ Val(metrics[i].DividendScore) >= 0
            /\ Val(metrics[i].DividendScore) <= 100 * Scale

\* the top of the range, reached with a CAGR and a yield above their clamps
C3_Witness ==
    /\ Scored
    /\ \E i \in DOMAIN metrics :
          /\ notna(metrics[i].DivCAGR) /\ Val(metrics[i].DivCAGR) > CAGR_CLAMP
          /\ notna(metrics[i].TTM_Yield) /\ Val(metrics[i].TTM_Yield) > YIELD_CAP
          /\ metrics[i].DividendScore = Some(100 * Scale)

\* C10: every normalized sub-score of dividend_score is undefined or in [0, 1],
\* and an undefined raw input (Coverage, DivCAGR, TTM_Yield, CV, Cuts) gives an
\* undefined normalized value, not 0.
C10_SubScoresInUnit ==
    Scored =>
        \A i \in DOMAIN metrics :
            LET r == metrics[i]
            IN  /\ \A f \in SubScores :
                      isna(r[f]) \/ (Val(r[f]) >= 0 /\ Val(r[f]) <= Scale)
                /\ isna(r.Coverage) => isna(r.cons_coverage)
                /\ isna(r.DivCAGR) => isna(r.growth)
                /\ isna(r.TTM_Yield) => isna(r.yield_score)
                /\ isna(r.CV) => isna(r.stability_cv)
                /\ isna(r.Cuts) => isna(r.stability_cuts)

\* a row with no CAGR and no yield, and a CV beyond its cap: growth and yield
\* sub-scores undefined, the CV sub-score at the bottom of the range
C10_Witness ==
    /\ Scored
    /\ \E i \in DOMAIN metrics :
          /\ isna(metrics[i].DivCAGR) /\ isna(metrics[i].growth)
          /\ isna(metrics[i].TTM_Yield) /\ isna(metrics[i].yield_score)
          /\ notna(metrics[i].CV) /\ Val(metrics[i].CV) > CV_CAP
          /\ metrics[i].stability_cv = Some(0)
          /\ notna(metrics[i].DividendScore)

\* the Defensive and Growth criteria as the rules state them
MeetsDefensive(r) ==
    /\ notna(r.Coverage) /\ Val(r.Coverage) >= DEF_COVERAGE
    /\ (isna(r.CV) \/ Val(r.CV) <= DEF_CV)
    /\ (isna(r.Cuts) \/ Val(r.Cuts) <= DEF_CUTS)

MeetsGrowth(r) == notna(r.DivCAGR) /\ Val(r.DivCAGR) >= GROWTH_CAGR

-----------------------------------------------------------------------------
(* Provider failures (Spec) *)

\* C4: when the provider raises for one selected company, the run is not
\* aborted: the company is left out and the other selected companies are
\* fetched, scored and labeled as if it had not been selected.
C4_FailureIsolated ==
    down # {} =>
        LET rest == SelectSeq(selected_companies, LAMBDA c : ticker_for_company(c) \notin down)
            d == build_dividend_dataset(rest, start_dt, end_dt)
        IN  /\ status \in {"rendered", "warning_nodata"}
            /\ \A i \in DOMAIN metrics : ticker_for_company(metrics[i].Company) \notin down
            /\ d # << >> => status = "rendered"
            /\ (status = "rendered" /\ persona_filter = {}) =>
                  metrics = pipeline(rest, start_dt, end_dt, d, annual_dividends(d))

-----------------------------------------------------------------------------
(* The rules of persona_row, one by one *)

MeetsYield(r) == notna(r.TTM_Yield) /\ Val(r.TTM_Yield) >= YIELD_TTM

\* C11: a company is labeled Defensive exactly when coverage >= 0.70 and
\* (CV undefined or CV <= 0.60) and (cuts undefined or cuts <= 1); so a company
\* with one paying year (coverage 1, CV undefined, no cut) is Defensive.
C11_DefensiveRule ==
    Rendered =>
        \A i \in DOMAIN metrics :
            (metrics[i].Persona = Some(DEFENSIVE)) <=> MeetsDefensive(metrics[i])

\* C12: a row that does not satisfy the Defensive rule is Growth exactly when
\* DivCAGR is defined and >= 0.05, otherwise Yield-seeking exactly when
\* TTM_Yield is defined and >= 0.05, otherwise Speculative.
C12_GrowthYieldSpeculative ==
    status = "labeled" =>
        \A i \in DOMAIN metrics :
            LET r == metrics[i]
            IN  ~MeetsDefensive(r) =>
                    /\ notna(r.Persona)
                    /\ Val(r.Persona) = (IF MeetsGrowth(r) THEN GROWTH
                                         ELSE IF MeetsYield(r) THEN YIELD_HUNTER
                                         ELSE SPECULATIVE)

\* coverage 0.5 and CAGR 0.08, with a yield that also passes its test: Growth
C12_Witness ==
    /\ status = "labeled"
    /\ \E i \in DOMAIN metrics :
          /\ metrics[i].Coverage = Some(50)
          /\ metrics[i].DivCAGR = Some(8)
          /\ MeetsYield(metrics[i])
          /\ metrics[i].Persona = Some(GROWTH)

-----------------------------------------------------------------------------
(* The weighted sum of dividend_score *)

\* an undefined sub-score counted as 0
OrZero(x) == IF x = NA THEN 0 ELSE x[1]

RawMetrics == {"Coverage", "LongestStreakYears", "DivCAGR", "TTM_Yield", "CV", "Cuts"}

\* C13: DividendScore is 100 times 0.40 consistency + 0.25 growth + 0.20 yield
\* + 0.15 stability with each undefined sub-score counted as 0 in the sum only:
\* the stored sub-scores stay undefined and the raw metrics are unchanged.
C13_DefaultInSumOnly ==
    [][(status = "raw" /\ status' = "scored") =>
          /\ DOMAIN metrics' = DOMAIN metrics
          /\ \A i \in DOMAIN metrics :
                /\ metrics'[i].DividendScore
                      = Some(40 * OrZero(metrics'[i].consistency)
                             + 25 * OrZero(metrics'[i].growth)
                             + 20 * OrZero(metrics'[i].yield_score)
                             + 15 * OrZero(metrics'[i].stability))
                /\ \A f \in RawMetrics : metrics'[i][f] = metrics[i][f]
                /\ isna(metrics[i].DivCAGR) => isna(metrics'[i].growth)
                /\ isna(metrics[i].TTM_Yield) => isna(metrics'[i].yield_score)
                /\ (isna(metrics[i].CV) /\ isna(metrics[i].Cuts)) => isna(metrics'[i].stability)
                /\ (isna(metrics'[i].cons_coverage) /\ isna(metrics'[i].cons_streak))
                      => isna(metrics'[i].consistency)]_vars

\* growth and yield undefined and stored so, the score made of the two others
C13_Witness ==
    /\ status = "scored"
    /\ \E i \in DOMAIN metrics :
          /\ isna(metrics[i].DivCAGR) /\ isna(metrics[i].growth)
          /\ isna(metrics[i].TTM_Yield) /\ isna(metrics[i].yield_score)
          /\ notna(metrics[i].consistency) /\ Val(metrics[i].consistency) > 0
          /\ notna(metrics[i].stability) /\ Val(metrics[i].stability) > 0
          /\ Val(metrics[i].DividendScore)
                = 40 * Val(metrics[i].consistency) + 15 * Val(metrics[i].stability)

-----------------------------------------------------------------------------
(* Yields *)

\* the provider's events of a company in the trailing window of the last run
EventsInTTM(c) ==
    {e \in dividends[ticker_for_company(c)] : e.Date >= end_dt - TTMDays /\ e.Date <= end_dt}

\* whether the provider has a price of the company dated in [from, to]
PriceIn(c, from, to) ==
    \E d \in Dates : d >= from /\ d <= to /\ prices[ticker_for_company(c)].rows[d] # NA

\* C14: in each of the two windows the yield is undefined when the window has
\* no mean price, and also when the dividends of the window sum to exactly 0;
\* it is never a zero yield in those cases.
C14_YieldUndefined ==
    Rendered =>
        \A i \in DOMAIN metrics :
            LET c == metrics[i].Company
            IN  /\ ~PriceIn(c, end_dt - TTMDays, end_dt) => isna(metrics[i].TTM_Yield)
                /\ ~PriceIn(c, start_dt, end_dt) => isna(metrics[i].Period_Yield)
                /\ SumAmounts(EventsInTTM(c)) = 0 => isna(metrics[i].TTM_Yield)
                /\ SumAmounts(EventsInWindow(c)) = 0 => isna(metrics[i].Period_Yield)

-----------------------------------------------------------------------------
(* Companies without events, and the window *)

\* C15: a selected company with no dividend event ever still gets a result
\* record: coverage undefined or zero, CAGR undefined, yield undefined, persona
\* Speculative.
C15_ZeroEventCompanyHasRecord ==
    Rendered =>
        \A c \in Range(selected_companies) :
            dividends[ticker_for_company(c)] = {} =>
                \E i \in DOMAIN metrics :
                    /\ metrics[i].Company = c
                    /\ (isna(metrics[i].Coverage) \/ metrics[i].Coverage = Some(0))
                    /\ isna(metrics[i].DivCAGR)
                    /\ isna(metrics[i].TTM_Yield)
                    /\ metrics[i].Persona = Some(SPECULATIVE)

\* the years of the whole provider history of a company
HistoryYears(c) == {YearOf(e.Date) : e \in dividends[ticker_for_company(c)]}

\* C16: YearsObserved (and so Coverage) comes from the first and last year of
\* the company's whole dividend history, not from the years inside the window.
C16_ObservedFromHistory ==
    Rendered =>
        \A i \in DOMAIN metrics :
            LET H == HistoryYears(metrics[i].Company)
            IN  /\ metrics[i].YearsObserved = Some(Max(H) - Min(H) + 1)
                /\ metrics[i].Coverage
                      = Some((Scale * Val(metrics[i].YearsPaid)) \div (Max(H) - Min(H) + 1))

\* the event rows the window keeps, from the provider's data
RowsInWindow ==
    UNION {{[Date |-> e.Date, Dividend |-> e.Dividend, Company |-> c,
             Ticker |-> ticker_for_company(c)] : e \in EventsInWindow(c)}
              : c \in Range(selected_companies)}

\* C17: build_dividend_dataset keeps exactly the events dated d with
\* start <= d <= end, and a selected company with no event in the window has no
\* event row and no annual record.
C17_WindowInclusive ==
    Rendered =>
        /\ Range(df) = RowsInWindow
        /\ Len(df) = Cardinality(RowsInWindow)
        /\ \A c \in Range(selected_companies) :
              EventsInWindow(c) = {} =>
                  /\ AnnualRows(c) = << >>
                  /\ \A i \in DOMAIN df : df[i].Company # c

\* a one-day window: the event of that day is kept (both bounds inclusive) and
\* a company whose only event is outside has no row and no annual record
C17_Witness ==
    /\ Rendered
    /\ start_dt = end_dt
    /\ \E i \in DOMAIN df : df[i].Date = start_dt
    /\ \E c \in Range(selected_companies) :
          /\ dividends[ticker_for_company(c)] # {}
          /\ EventsInWindow(c) = {}
          /\ AnnualRows(c) = << >>

\* the last run ended at the table stage or at the "no dividend events" notice
RanToData == Rendered \/ status = "warning_nodata"

NoEventInWindow == \A c \in Range(selected_companies) : EventsInWindow(c) = {}

\* C18 (as amended): when no selected company has an event in the window, the
\* event table is empty and the run ends at the notice with no annual record,
\* metric, score or persona; annual_dividends, consistency_metrics,
\* volatility_metrics and cagr_metrics return an empty result on the empty
\* tables, and yield_metrics on the empty event table does not fail and returns
\* one record per selected company.
C18_NoDataNotice ==
    /\ (RanToData /\ NoEventInWindow) =>
          /\ status = "warning_nodata"
          /\ df = << >> /\ ann = << >> /\ metrics = << >>
    /\ status = "warning_nodata" =>
          /\ annual_dividends(df) = << >>
          /\ consistency_metrics(df, ann) = << >>
          /\ volatility_metrics(ann) = << >>
          /\ cagr_metrics(ann) = << >>
          /\ Len(yield_metrics(selected_companies, start_dt, end_dt, df))
                = Len(selected_companies)

\* a run that ends at the notice although a selected company has events, all of
\* them outside the window
C18_Witness ==
    /\ status = "warning_nodata"
    /\ NoEventInWindow
    /\ \E c \in Range(selected_companies) : dividends[ticker_for_company(c)] # {}
    /\ metrics = << >>

\* C18 (as stated): the same, with every extractor, yield_metrics included,
\* returning an empty result on empty input.
C18_EveryExtractorEmpty ==
    /\ (RanToData /\ NoEventInWindow) =>
          /\ status = "warning_nodata"
          /\ df = << >> /\ ann = << >> /\ metrics = << >>
    /\ status = "warning_nodata" =>
          /\ annual_dividends(df) = << >>
          /\ consistency_metrics(df, ann) = << >>
          /\ volatility_metrics(ann) = << >>
          /\ cagr_metrics(ann) = << >>
          /\ yield_metrics(selected_companies, start_dt, end_dt, df) = << >>

-----------------------------------------------------------------------------
(* The extractors in any order (SpecExtract) *)

-----------------------------------------------------------------------------
(* Paid years *)

\* C20: YearsPaid counts only the distinct years whose annual dividend sum is
\* strictly positive; a year whose events sum to zero is not a paid year.
C20_PaidYearsPositive ==
    Rendered =>
        \A i \in DOMAIN metrics :
            metrics[i].YearsPaid = Some(Cardinality(PositiveYears(metrics[i].Company)))

-----------------------------------------------------------------------------
(* Properties of the extractors on annual series (SpecSeries) *)

\* the years of a company's events in the event table
EventYears(c) == {YearOf(df[i].Date) : i \in {j \in DOMAIN df : df[j].Company = c}}

\* the summed amount of a company's events of year y in the event table
YearAmount(c, y) ==
    SumSeq([i \in DOMAIN df |->
               IF df[i].Company = c /\ YearOf(df[i].Date) = y THEN df[i].Dividend ELSE 0])

\* the length of the longest run of consecutive years in Y
LongestRun(Y) ==
    Max({n \in 0 .. Cardinality(Y) : n = 0 \/ \E a \in Y : \A k \in 0 .. (n - 1) : (a + k) \in Y})

\* C21: LongestStreakYears is the length of the longest run of consecutive
\* years in the company's annual series; a missing year ends the run and a
\* company with one year has streak 1.
C21_LongestRun ==
    status = "analysed" =>
        \A i \in DOMAIN metrics :
            metrics[i].LongestStreakYears = Some(LongestRun(EventYears(metrics[i].Company)))

\* years Y, Y+1 and Y+3: the run of two before the missing year is the longest
C21_Witness ==
    /\ status = "analysed"
    /\ \E i \in DOMAIN metrics :
          /\ EventYears(metrics[i].Company) = {0, 1, 3}
          /\ metrics[i].LongestStreakYears = Some(2)

\* C22: Cuts of a company is the number of its annual records whose YoY
\* growth is defined and strictly negative (undefined and zero growth are not
\* counted), and each company's count is on that company's own row.
C22_CutsCount ==
    status = "analysed" =>
        \A i \in DOMAIN metrics :
            metrics[i].Cuts
               = Some(Cardinality({j \in DOMAIN ann :
                                      /\ ann[j].Company = metrics[i].Company
                                      /\ ann[j].YoY_Growth # NA
                                      /\ ann[j].YoY_Growth[1] < 0}))

\* two companies with different counts: two cuts beside one cut and one year of
\* zero growth
C22_Witness ==
    /\ status = "analysed"
    /\ Len(metrics) = 2
    /\ metrics[1].Cuts = Some(2)
    /\ metrics[2].Cuts = Some(1)
    /\ \E j \in DOMAIN ann : ann[j].Company = metrics[2].Company /\ ann[j].YoY_Growth = Some(0)

\* the years of a company whose events sum to more than 0, from the event table
PaidYears(c) == {y \in EventYears(c) : YearAmount(c, y) > 0}

\* C23: the endpoints of the CAGR are the earliest and the latest year with a
\* strictly positive amount, zero-amount years at either end left out, the span
\* is the difference of the two years, and the CAGR is negative exactly when
\* the last positive amount is below the first.  (v is the CAGR in 1/Scale,
\* rounded down: (1 + v)^span <= last / first < (1 + v + 1/Scale)^span.)
C23_CagrEndpoints ==
    status = "analysed" =>
        \A i \in DOMAIN metrics :
            LET P == PaidYears(metrics[i].Company)
            IN  Cardinality(P) >= 2 =>
                    LET first == YearAmount(metrics[i].Company, Min(P))
                        last == YearAmount(metrics[i].Company, Max(P))
                        span == Max(P) - Min(P)
                        v == metrics[i].DivCAGR[1]
                    IN  /\ metrics[i].DivCAGR # NA
                        /\ Pow(v + Scale, span) * first <= Pow(Scale, span) * last
                        /\ Pow(Scale, span) * last < Pow(v + 1 + Scale, span) * first
                        /\ (v < 0) <=> (last < first)

\* a zero-amount year at each end of the series: the endpoints are the two
\* years between them, and the amount halves from one to the next
C23_Witness ==
    /\ status = "analysed"
    /\ \E i \in DOMAIN metrics :
          /\ EventYears(metrics[i].Company) = SeriesYears
          /\ PaidYears(metrics[i].Company) = {1, 2}
          /\ metrics[i].DivCAGR = Some(-50)

-----------------------------------------------------------------------------
(* The sub-scores of dividend_score, one by one (SpecScore) *)

\* x clamped to [0, hi], then inverted on that range: 1 - x / hi, in 1/Scale
Inverted(x, hi) ==
    Scale - (Scale * (IF x < 0 THEN 0 ELSE IF x > hi THEN hi ELSE x)) \div hi

\* C24: stability is the unweighted mean of whichever of its two components
\* are defined, the CV component (CV clamped to [0, 2], inverted) and the cuts
\* component (cuts clamped to [0, 4], inverted); with one undefined it is the
\* other, with both undefined it is undefined.
C24_StabilityMean ==
    Scored =>
        \A i \in DOMAIN metrics :
            LET r == metrics[i]
                cvc == IF r.CV = NA THEN NA ELSE << Inverted(r.CV[1], 2 * Scale) >>
                cutc == IF r.Cuts = NA THEN NA ELSE << Inverted(r.Cuts[1], 4) >>
            IN  /\ r.stability_cv = cvc
                /\ r.stability_cuts = cutc
                /\ r.stability = (IF cvc = NA THEN cutc
                                  ELSE IF cutc = NA THEN cvc
                                  ELSE << (cvc[1] + cutc[1]) \div 2 >>)

\* two peers: one with no CV and two cuts, whose stability is its cuts
\* component alone, and one with both components, whose stability is their mean
C24_Witness ==
    /\ Scored
    /\ \E i, j \in DOMAIN metrics :
          /\ metrics[i].CV = NA /\ metrics[i].Cuts = Some(2)
          /\ metrics[i].stability = Some(50)
          /\ metrics[j].CV = Some(250) /\ metrics[j].Cuts = Some(6)
          /\ metrics[j].stability = Some(0)

\* the longest streak among the rows of the scored table
MaxStreak ==
    Max({0} \cup {metrics[i].LongestStreakYears[1] :
                     i \in {j \in DOMAIN metrics : metrics[j].LongestStreakYears # NA}})

\* C25: the streak part of the consistency sub-score is LongestStreakYears over
\* the maximum LongestStreakYears of the companies scored in the same call: the
\* company with the longest streak gets 1, and beside a peer with a longer
\* streak a company's streak part and consistency are lower than alone.
C25_StreakRelativeToPeers ==
    Scored =>
        /\ \A i \in DOMAIN metrics :
              /\ metrics[i].LongestStreakYears = NA => metrics[i].cons_streak = NA
              /\ metrics[i].LongestStreakYears # NA =>
                    /\ metrics[i].cons_streak
                          = Some((Scale * metrics[i].LongestStreakYears[1]) \div MaxStreak)
                    /\ metrics[i].LongestStreakYears[1] = MaxStreak
                          => metrics[i].cons_streak = Some(Scale)
        /\ \A i, j \in DOMAIN metrics :
              (/\ metrics[i].LongestStreakYears # NA
               /\ metrics[j].LongestStreakYears # NA
               /\ metrics[j].LongestStreakYears[1] > metrics[i].LongestStreakYears[1])
                 => LET alone == dividend_score(<< metrics[i] >>)[1]
                    IN  /\ alone.cons_streak = Some(Scale)
                        /\ metrics[i].cons_streak[1] < alone.cons_streak[1]
                        /\ metrics[i].consistency[1] < alone.consistency[1]

\* a streak of 3 beside a peer's streak of 5: 0.6 for the one, 1 for the peer
C25_Witness ==
    /\ Scored
    /\ Len(metrics) = 2
    /\ metrics[1].LongestStreakYears = Some(3) /\ metrics[1].cons_streak = Some(60)
    /\ metrics[2].LongestStreakYears = Some(5) /\ metrics[2].cons_streak = Some(Scale)
    /\ metrics[1].Coverage # NA

-----------------------------------------------------------------------------
(* The two windows of yield_metrics (SpecAnalytics) *)

\* C26: the TTM dividend sum takes every event of the full history dated in
\* [end - 365 days, end], events before the selected start included, so the TTM
\* figures follow from the end date alone; the period yield takes only the
\* events in [start, end].  (The provider's price is SEN_PRICE on every day it
\* has one, so a defined mean price is SEN_PRICE.)
C26_TrailingWindow ==
    Rendered =>
        \A i \in DOMAIN metrics :
            LET c == metrics[i].Company
                ttm == SumAmounts(EventsInTTM(c))
                period == SumAmounts(EventsInWindow(c))
            IN  /\ ttm # 0 =>
                      /\ metrics[i].TTM_Dividend = Some(ttm)
                      /\ PriceIn(c, end_dt - TTMDays, end_dt) =>
                            metrics[i].TTM_Yield = Some((Scale * ttm) \div SEN_PRICE)
                /\ (period # 0 /\ PriceIn(c, start_dt, end_dt)) =>
                      metrics[i].Period_Yield = Some((Scale * period) \div SEN_PRICE)

\* an event before the start date and inside the trailing window: it counts in
\* the TTM sum and not in the period sum
C26_Witness ==
    /\ Rendered
    /\ \E i \in DOMAIN metrics :
          /\ \E e \in EventsInTTM(metrics[i].Company) : e.Date < start_dt /\ e.Dividend > 0
          /\ metrics[i].TTM_Dividend = Some(3)
          /\ metrics[i].TTM_Yield = Some(15)
          /\ metrics[i].Period_Yield = Some(5)

-----------------------------------------------------------------------------
(* The persona filter of a run (Spec) *)

Filtered == status = "rendered" /\ persona_filter # {}

\* the metrics of the same run with the persona filter left blank
Unfiltered ==
    LET d == build_dividend_dataset(selected_companies, start_dt, end_dt)
    IN  pipeline(selected_companies, start_dt, end_dt, d, annual_dividends(d))

\* C27: the persona filter acts after scoring and labeling: the records of a
\* filtered run are, in order, the records of the unfiltered run whose persona is
\* in the filter, with the same DividendScore and Persona, and the event table
\* and the annual table hold only companies whose persona is in the filter.
C27_FilterAfterScoring ==
    Filtered =>
        LET passing == {i \in DOMAIN Unfiltered : Val(Unfiltered[i].Persona) \in persona_filter}
            kept == {Unfiltered[i].Company : i \in passing}
        IN  /\ Len(metrics) = Cardinality(passing)
            /\ \A i \in DOMAIN metrics :
                  \E j \in passing :
                      /\ metrics[i].Company = Unfiltered[j].Company
                      /\ metrics[i].DividendScore = Unfiltered[j].DividendScore
                      /\ metrics[i].Persona = Unfiltered[j].Persona
            /\ \A i, k \in DOMAIN metrics :
                  i < k => \E j, l \in passing :
                              /\ j < l
                              /\ metrics[i].Company = Unfiltered[j].Company
                              /\ metrics[k].Company = Unfiltered[l].Company
            /\ \A i \in DOMAIN df : df[i].Company \in kept
            /\ \A i \in DOMAIN ann : ann[i].Company \in kept

\* a filtered run that keeps one company and drops another that has events in
\* the window
C27_Witness ==
    /\ Filtered
    /\ Len(metrics) = 1
    /\ df # << >>
    /\ ann # << >>
    /\ \E c \in Range(selected_companies) :
          /\ EventsInWindow(c) # {}
          /\ \A i \in DOMAIN metrics : metrics[i].Company # c

-----------------------------------------------------------------------------
(* The stock-monitoring page: main() of src/overview.py.  The session state  *)
(* is monitor_generated, monitor_df_all and picked_points_close; a run of    *)
(* the script is one press of "Get Historical Data", one press of "Reset     *)
(* picks", or one run in which plotly_events hands the script a click.       *)
(* monitor_df_all is the sequence of its rows [Company, Date, Close]; the    *)
(* empty DataFrame is << >>.  None is NA.                                    *)

\* the dividend page and the financials helpers idle, for the other pages' runs
DividendPageIdle ==
    /\ dividends = [t \in Tickers |-> {}]
    /\ prices = [t \in Tickers |-> ListedLate]
    /\ down = {}
    /\ selected_companies = << >>
    /\ start_dt = 0
    /\ end_dt = 0
    /\ persona_filter = {}
    /\ status = "idle"
    /\ df = << >>
    /\ ann = << >>
    /\ metrics = << >>
    /\ parts = NoParts

\* lines 32 and 35-47 (the base company and one competitor)
base_ticker == "5789.KL"
competitors == [c \in {"S P Setia"} |-> "8664.KL"]
MonitorTickers == {base_ticker} \cup {competitors[c] : c \in DOMAIN competitors}

\* the days of the model and the closes the provider may hold (NA: NaN)
MonitorDates == 0 .. 1
Closes == {NA, Some(1)}

\* the days on which the provider has rows of a ticker: the competitor is
\* listed from the last day on
Listed == [t \in MonitorTickers |-> IF t = base_ticker THEN MonitorDates
                                    ELSE {Max(MonitorDates)}]

\* what the provider may hold for a ticker: at most one row per day
PriceHistories(ticker) ==
    {h \in SUBSET [Date : Listed[ticker], Close : Closes] :
        \A r, q \in h : r.Date = q.Date => r = q}

\* lines 12-25; the page passes end + 1 day to the provider, whose end is
\* exclusive: the rows dated start .. end, without those that have no close
fetch_data(ticker, start, end) ==
    LET rows == {r \in history[ticker] : r.Date >= start /\ r.Date <= end}
        frame == SetToSortedSeq(rows, [r \in rows |-> r.Date])
        kept == SelectSeq(frame, LAMBDA r : notna(r.Close))
    IN  [i \in DOMAIN kept |-> [Date |-> kept[i].Date, Close |-> Val(kept[i].Close)]]

\* lines 81, 89: df["Company"] = ...
with_company(frame, company) ==
    [i \in DOMAIN frame |->
        [Company |-> company, Date |-> frame[i].Date, Close |-> frame[i].Close]]

RECURSIVE competitor_frames(_, _, _)
\* lines 84-90: the frames of the selected competitors, the empty ones skipped
competitor_frames(selected_competitors, start, end) ==
    IF selected_competitors = << >> THEN << >>
    ELSE with_company(fetch_data(competitors[Head(selected_competitors)], start, end),
                      Head(selected_competitors))
         \o competitor_frames(Tail(selected_competitors), start, end)

\* lines 95-97: "LBS Bina", then the selected competitors that have rows
company_order(selected_competitors, frame) ==
    << "LBS Bina" >>
    \o SelectSeq(selected_competitors,
                 LAMBDA c : \E i \in DOMAIN frame : frame[i].Company = c)

\* lines 99-100: sort_values(["Company", "Date"]) in category order
sort_category_date(frame, order) ==
    LET span == 1 + Max(MonitorDates)
        rank(c) == CHOOSE i \in DOMAIN order : order[i] = c
        rows == Range(frame)
    IN  SetToSortedSeq(rows, [r \in rows |-> rank(r.Company) * span + r.Date])

\* lines 74-100: df_all of a press whose requests all answer
build_df_all(selected_competitors, start, end) ==
    LET df_base == with_company(fetch_data(base_ticker, start, end), "LBS Bina")
        all == df_base \o competitor_frames(selected_competitors, start, end)
    IN  sort_category_date(all, company_order(selected_competitors, all))

\* line 156: the categories of the stored frame; every category has rows and the
\* frame is sorted by category, so they are its companies in order of appearance
categories(frame) ==
    LET firsts == {i \in DOMAIN frame : \A j \in 1 .. i - 1 : frame[j].Company # frame[i].Company}
        at == SetToSortedSeq(firsts, [i \in firsts |-> i])
    IN  [k \in DOMAIN at |-> frame[at[k]].Company]

\* variant: line 170 keeping the first two entries
first_two(picks) == SubSeq(picks, 1, Min({2, Len(picks)}))

\* line 170: picks[-2:]
last_two(picks) == SubSeq(picks, Max({1, Len(picks) - 1}), Len(picks))

\* lines 150-168: the pick of a click, NA when the click is not recorded
picked_of(frame, curve, point_index) ==
    LET order == categories(frame)
    IN  IF notna(curve) /\ notna(point_index) /\ 0 <= Val(curve) /\ Val(curve) < Len(order)
        THEN LET company == order[Val(curve) + 1]
                 df_comp == SelectSeq(frame, LAMBDA r : r.Company = company)
             IN  IF 0 <= Val(point_index) /\ Val(point_index) < Len(df_comp)
                 THEN Some(df_comp[Val(point_index) + 1])
                 ELSE NA
        ELSE NA

\* the competitors the multiselect may hold, and the provider outages
MonitorSelections == {<< >>, << "S P Setia" >>}
MonitorOutages == {{t} : t \in MonitorTickers}

\* the clicks plotly_events may hand a run, as <<curveNumber, pointIndex>>:
\* points of the two curves, a point index and a curve number past the end,
\* and a click without a curve number
Clicked == {<<Some(0), Some(0)>>, <<Some(0), Some(1)>>, <<Some(1), Some(0)>>,
            <<Some(0), Some(2)>>, <<Some(2), Some(0)>>, <<NA, Some(0)>>}

\* the runs with a click that the history keeps
MaxClicks == 3

InitMonitor ==
    /\ DividendPageIdle
    /\ history \in {h \in [MonitorTickers -> SUBSET [Date : MonitorDates, Close : Closes]] :
                       \A t \in MonitorTickers : h[t] \in PriceHistories(t)}
    /\ monitor_generated = FALSE
    /\ monitor_df_all = << >>
    /\ picked_points_close = << >>
    /\ clicks = << >>
    /\ monitor_notice = "none"
    /\ quarterly_financials = << >>
    /\ fin_call = << >>
    /\ records = << >>

\* a request of the press raises: the base company's, or, once the base
\* company has rows, a selected competitor's
fetch_raises(selected_competitors, start, end, failing) ==
    \/ base_ticker \in failing
    \/ /\ fetch_data(base_ticker, start, end) # << >>
       /\ \E i \in DOMAIN selected_competitors : competitors[selected_competitors[i]] \in failing

\* lines 72-79: the base company has no rows; st.stop() ends the run
GetHistoricalDataNoBase(start, end, selected_competitors) ==
    /\ fetch_data(base_ticker, start, end) = << >>
    /\ monitor_generated' = FALSE
    /\ monitor_df_all' = << >>
    /\ monitor_notice' = "warning_nodata"
    /\ UNCHANGED <<history, picked_points_close, clicks>>
    /\ UNCHANGED <<dividend_vars, financials_vars>>

\* lines 108-111: a request raises; the chart is not drawn (line 116)
GetHistoricalDataRaises(start, end, selected_competitors, failing) ==
    /\ fetch_raises(selected_competitors, start, end, failing)
    /\ monitor_generated' = FALSE
    /\ monitor_df_all' = << >>
    /\ monitor_notice' = "error"
    /\ UNCHANGED <<history, picked_points_close, clicks>>
    /\ UNCHANGED <<dividend_vars, financials_vars>>

\* variant: line 104 left out, the picks outlive the regeneration
GetHistoricalData_keeping_picks(start, end, selected_competitors) ==
    /\ fetch_data(base_ticker, start, end) # << >>
    /\ monitor_df_all' = build_df_all(selected_competitors, start, end)
    /\ monitor_generated' = TRUE
    /\ monitor_notice' = "none"
    /\ UNCHANGED <<history, picked_points_close, clicks>>
    /\ UNCHANGED <<dividend_vars, financials_vars>>

\* lines 72-106: every request answers and the base company has rows
GetHistoricalData(start, end, selected_competitors) ==
    /\ fetch_data(base_ticker, start, end) # << >>
    /\ monitor_df_all' = build_df_all(selected_competitors, start, end)
    /\ monitor_generated' = TRUE
    /\ picked_points_close' = << >>
    /\ clicks' = << >>
    /\ monitor_notice' = "none"
    /\ UNCHANGED history
    /\ UNCHANGED <<dividend_vars, financials_vars>>

\* lines 116-170: a run that draws the chart and in which plotly_events hands
\* the script a click
Click(curve, point_index) ==
    /\ monitor_generated /\ monitor_df_all # << >>
    /\ Len(clicks) < MaxClicks
    /\ \E picked \in {picked_of(monitor_df_all, curve, point_index)} :
          /\ picked_points_close' =
                IF notna(picked)
                THEN last_two(Append(picked_points_close, Val(picked)))
                ELSE picked_points_close
          /\ clicks' = Append(clicks, [curveNumber |-> curve, pointIndex |-> point_index,
                                       picked |-> picked])
    /\ monitor_notice' = "none"
    /\ UNCHANGED <<history, monitor_generated, monitor_df_all>>
    /\ UNCHANGED <<dividend_vars, financials_vars>>

\* lines 195-197
ResetPicks ==
    /\ monitor_generated /\ monitor_df_all # << >>
    /\ picked_points_close' = << >>
    /\ clicks' = << >>
    /\ monitor_notice' = "none"
    /\ UNCHANGED <<history, monitor_generated, monitor_df_all>>
    /\ UNCHANGED <<dividend_vars, financials_vars>>

NextMonitor ==
    \/ \E start, end \in MonitorDates, selected_competitors \in MonitorSelections :
            GetHistoricalDataNoBase(start, end, selected_competitors)
    \/ \E start, end \in MonitorDates, selected_competitors \in MonitorSelections,
          failing \in MonitorOutages :
            GetHistoricalDataRaises(start, end, selected_competitors, failing)
    \/ \E start, end \in MonitorDates, selected_competitors \in MonitorSelections :
            GetHistoricalData(start, end, selected_competitors)
    \/ \E c \in Clicked : Click(c[1], c[2])
    \/ ResetPicks

SpecMonitor == InitMonitor /\ [][NextMonitor]_vars

-----------------------------------------------------------------------------
(* The picks and the session state of the stock-monitoring page (SpecMonitor) *)

\* the chart is drawn (line 116)
ChartDrawn == monitor_generated /\ monitor_df_all # << >>

\* the curve of the row at position i of the stored frame: the number of other
\* companies above it; its point index: the number of rows of its company above it
CurveAt(i) ==
    Cardinality({monitor_df_all[j].Company : j \in 1 .. i - 1} \ {monitor_df_all[i].Company})
PointAt(i) ==
    Cardinality({j \in 1 .. i - 1 : monitor_df_all[j].Company = monitor_df_all[i].Company})

\* the positions of the stored frame that a click hits
Hits(e) ==
    {i \in DOMAIN monitor_df_all :
        /\ notna(e.curveNumber) /\ notna(e.pointIndex)
        /\ CurveAt(i) = Val(e.curveNumber)
        /\ PointAt(i) = Val(e.pointIndex)}

\* the clicks since the picks were last emptied that were recorded
ValidClicks == SelectSeq(clicks, LAMBDA e : notna(e.picked))

\* C28: picked_points_close holds at most two picks: the picks of the most
\* recent valid clicks since the last reset or successful regeneration, in click
\* order; a click is valid when its curve number and point index hit a row of
\* the stored frame, its pick is that row, and a click that hits no row is not
\* among the picks.
C28_MostRecentValidClicks ==
    LET n == Len(ValidClicks)
        kept == Min({2, n})
    IN  /\ Len(picked_points_close) <= 2
        /\ picked_points_close = [i \in 1 .. kept |-> Val(ValidClicks[n - kept + i].picked)]
        /\ ChartDrawn =>
              \A k \in DOMAIN clicks :
                  IF Hits(clicks[k]) = {}
                  THEN clicks[k].picked = NA
                  ELSE \E i \in Hits(clicks[k]) : clicks[k].picked = Some(monitor_df_all[i])

\* three valid clicks on different points: the first is no longer among the picks
C28_Witness ==
    /\ ChartDrawn
    /\ Len(clicks) = 3
    /\ \A k \in DOMAIN clicks : notna(clicks[k].picked)
    /\ clicks[1].picked # clicks[2].picked
    /\ clicks[2].picked # clicks[3].picked
    /\ clicks[1].picked # clicks[3].picked
    /\ picked_points_close = << Val(clicks[2].picked), Val(clicks[3].picked) >>

\* C29: while monitor_generated is true the stored frame is non-empty and has
\* rows of LBS Bina; after a failed fetch (no base data, or a request raising)
\* monitor_generated is false and the stored frame is empty; every pick shown
\* with the chart is a row of the stored frame.
C29_GeneratedHasData ==
    /\ monitor_generated =>
          /\ monitor_df_all # << >>
          /\ \E i \in DOMAIN monitor_df_all : monitor_df_all[i].Company = "LBS Bina"
    /\ monitor_notice \in {"warning_nodata", "error"} =>
          /\ ~monitor_generated
          /\ monitor_df_all = << >>
    /\ ChartDrawn =>
          \A i \in DOMAIN picked_points_close :
              picked_points_close[i] \in Range(monitor_df_all)

\* a fetch that raises after two picks were made: the picks are still in the
\* session and nothing is drawn
C29_Witness ==
    /\ monitor_notice = "error"
    /\ ~monitor_generated
    /\ monitor_df_all = << >>
    /\ Len(picked_points_close) = 2

-----------------------------------------------------------------------------
(* The metrics helpers of src/financials.py: get_revenue_data and            *)
(* get_patmi_data over fetch_quarterly_financials.  The provider's frame of  *)
(* a ticker is a set of quarters [Date, Revenue, PATMI] in raw units (NA: a  *)
(* NaN cell); the helpers work in thousands.  None is NA.                    *)

\* lines 9-22 (two of the companies) and a name that is not in the table
companies == [c \in {"LBS Bina", "S P Setia"} |->
                 IF c = "LBS Bina" THEN "5789.KL" ELSE "8664.KL"]
UnknownCompany == "Unlisted"
FinTickers == {companies[c] : c \in DOMAIN companies}

ROW_REVENUE == "Revenue"
ROW_PATMI == "PATMI"

\* line 103: the scaling to thousands
Thousand == 1000

\* the quarter ends of the model and the raw cells the provider may hold
QuarterDates == 0 .. 1
Quarters ==
    [Date : QuarterDates, Revenue : {NA, Some(2000)}, PATMI : {NA, Some(-1000)}]

\* the quarters the provider holds over all tickers
MaxQuarters == 2

\* what the provider may hold for a ticker: one column per quarter end
QuarterFrames ==
    {h \in SUBSET Quarters :
        /\ Cardinality(h) <= MaxQuarters
        /\ \A q, r \in h : q.Date = r.Date => q = r}

\* lines 82-105: the frame of a ticker, its cells scaled to thousands; an empty
\* provider frame gives a frame without columns
fetch_quarterly_financials(ticker_code) ==
    {[Date |-> q.Date,
      Revenue |-> IF isna(q.Revenue) THEN NA ELSE Some(Val(q.Revenue) \div Thousand),
      PATMI |-> IF isna(q.PATMI) THEN NA ELSE Some(Val(q.PATMI) \div Thousand)]
        : q \in quarterly_financials[ticker_code]}

\* variant: line 199 with the end date left out of the window
row_in_window_open_end(frame, start, end) ==
    IF notna(start) /\ notna(end)
    THEN {q \in frame : q.Date >= Val(start) /\ q.Date < Val(end)}
    ELSE frame

\* lines 198-199: the window, applied when both ends are given
row_in_window(frame, start, end) ==
    IF notna(start) /\ notna(end)
    THEN {q \in frame : q.Date >= Val(start) /\ q.Date <= Val(end)}
    ELSE frame

\* lines 195-201: the sum of the cells of a row that are not NaN, 0.0 without any
row_sum(frame, item, start, end) ==
    LET row == row_in_window(frame, start, end)
        cells == {q \in row : notna(q[item])}
        dated == SetToSortedSeq(cells, [q \in cells |-> q.Date])
    IN  SumSeq([i \in DOMAIN dated |-> Val(dated[i][item])])

\* lines 184-202: the record of one company
metric_record(comp, item, start, end) ==
    IF comp \notin DOMAIN companies
    THEN [Company |-> comp, Value |-> 0]
    ELSE LET frame == fetch_quarterly_financials(companies[comp])
         IN  IF frame = {}
             THEN [Company |-> comp, Value |-> 0]
             ELSE [Company |-> comp, Value |-> row_sum(frame, item, start, end)]

\* lines 175-204
get_revenue_data(company_list, start, end) ==
    [i \in DOMAIN company_list |-> metric_record(company_list[i], ROW_REVENUE, start, end)]

\* lines 206-235
get_patmi_data(company_list, start, end) ==
    [i \in DOMAIN company_list |-> metric_record(company_list[i], ROW_PATMI, start, end)]

\* the arguments of a call: lists of up to two names, a name may repeat
CompanyLists ==
    LET names == DOMAIN companies \cup {UnknownCompany}
    IN  {<< >>} \cup {<< a >> : a \in names} \cup {<< a, b >> : a \in names, b \in names}
WindowEnds == {NA} \cup {Some(d) : d \in QuarterDates}

NoCall == [helper |-> "none", company_list |-> << >>, start |-> NA, end |-> NA]

InitFinancials ==
    /\ DividendPageIdle
    /\ history = << >>
    /\ monitor_generated = FALSE
    /\ monitor_df_all = << >>
    /\ picked_points_close = << >>
    /\ clicks = << >>
    /\ monitor_notice = "none"
    /\ quarterly_financials \in
          {f \in [FinTickers -> QuarterFrames] :
              Cardinality(UNION {{<<t, q>> : q \in f[t]} : t \in FinTickers}) <= MaxQuarters}
    /\ fin_call = NoCall
    /\ records = << >>

GetRevenueData(company_list, start, end) ==
    /\ fin_call.helper = "none"
    /\ fin_call' = [helper |-> "get_revenue_data", company_list |-> company_list,
                    start |-> start, end |-> end]
    /\ records' = get_revenue_data(company_list, start, end)
    /\ UNCHANGED quarterly_financials
    /\ UNCHANGED <<dividend_vars, monitor_vars>>

GetPatmiData(company_list, start, end) ==
    /\ fin_call.helper = "none"
    /\ fin_call' = [helper |-> "get_patmi_data", company_list |-> company_list,
                    start |-> start, end |-> end]
    /\ records' = get_patmi_data(company_list, start, end)
    /\ UNCHANGED quarterly_financials
    /\ UNCHANGED <<dividend_vars, monitor_vars>>

NextFinancials ==
    \/ \E company_list \in CompanyLists, start \in WindowEnds, end \in WindowEnds :
            GetRevenueData(company_list, start, end)
    \/ \E company_list \in CompanyLists, start \in WindowEnds, end \in WindowEnds :
            GetPatmiData(company_list, start, end)

SpecFinancials == InitFinancials /\ [][NextFinancials]_vars

-----------------------------------------------------------------------------
(* The records of get_revenue_data and get_patmi_data (SpecFinancials) *)

Called == fin_call.helper # "none"

\* the cell of a provider quarter that the called helper reads
CellOf(q) == IF fin_call.helper = "get_revenue_data" THEN q.Revenue ELSE q.PATMI

\* the provider quarters of a company that the call counts: those with a value,
\* dated in [start, end] when both dates are given
Counted(comp) ==
    IF comp \notin DOMAIN companies THEN {}
    ELSE {q \in quarterly_financials[companies[comp]] :
             /\ notna(CellOf(q))
             /\ (notna(fin_call.start) /\ notna(fin_call.end)) =>
                    (q.Date >= Val(fin_call.start) /\ q.Date <= Val(fin_call.end))}

RECURSIVE SumCells(_)
SumCells(S) ==
    IF S = {} THEN 0
    ELSE LET q == CHOOSE x \in S : TRUE
         IN  Val(CellOf(q)) \div Thousand + SumCells(S \ {q})

\* C30: get_revenue_data and get_patmi_data return one record per entry of the
\* input list, in input order; the value is the sum, in thousands, of the
\* company's quarters dated in [start, end], and 0 when the company is unknown,
\* has no financials or has no quarter in the window.
C30_OneRecordPerCompany ==
    Called =>
        /\ Len(records) = Len(fin_call.company_list)
        /\ \A i \in DOMAIN records :
              /\ records[i].Company = fin_call.company_list[i]
              /\ records[i].Value = SumCells(Counted(records[i].Company))
              /\ Counted(records[i].Company) = {} => records[i].Value = 0

\* an unknown company and a company with one quarter before the window and one
\* in it
C30_Witness ==
    /\ fin_call = [helper |-> "get_revenue_data",
                   company_list |-> << UnknownCompany, "LBS Bina" >>,
                   start |-> Some(1), end |-> Some(1)]
    /\ Cardinality(quarterly_financials[companies["LBS Bina"]]) = 2
    /\ \A q \in quarterly_financials[companies["LBS Bina"]] : q.Revenue = Some(2000)
    /\ records = << [Company |-> UnknownCompany, Value |-> 0],
                    [Company |-> "LBS Bina", Value |-> 2] >>

====
